---- MODULE Spec2Model ----
(***************************************************************************)
(* A model of adorn's orchestration and resolution engine: the Base        *)
(* orchestrator (units in priority order, the Alter pipeline), the Python  *)
(* unit (built-in and wrapper types), the Value, ParameterValue,           *)
(* ConstructorValue, Anum, DataClass and Complex units, and the registries *)
(* they read.  Python objects are encoded as records of one shape each     *)
(* (values, types, errors, outcomes) so that any two of them compare.      *)
(***************************************************************************)
EXTENDS Integers, Sequences, FiniteSets, TLC

VARIABLES
    units,      \* Base.units: the unit (handler family) names, in priority order
    alters,     \* Base.alters: the user_dict of each UserDictAlter, in priority order
    registry,   \* the classes that are keys of Gym._registry (a defaultdict)
    phase,      \* "idle", "called" (a request is pending) or "done"
    op,         \* the operation requested: "type_check" or "from_obj"
    call_cls,   \* the target type of the request
    call_obj,   \* the caller's value, as the last call left it
    out,        \* the outcome of the last completed call
    log,        \* the orchestrator-level events of the last completed call
    prev,       \* the operation and the outcome of the call before, kept when it was for the same pair
    registries  \* what the register decorators have filled: the name tables of the units and of the Gym hierarchy

vars == <<units, alters, registry, phase, op, call_cls, call_obj, out, log, prev, registries>>

(***************************************************************************)
(* Bounds of the model.                                                    *)
(***************************************************************************)
\* the longest list value that is enumerated
MaxLen == 4
\* the most registrations that are made on empty registries
MaxRegistrations == 2

(***************************************************************************)
(* Python values.  float values are kept in tenths (1.1 is n = 11).        *)
(***************************************************************************)
Val(k, n, s, items) == [k |-> k, n |-> n, s |-> s, items |-> items]
NoneV == Val("None", 0, "", <<>>)
IntV(n) == Val("int", n, "", <<>>)
BoolV(b) == Val("bool", IF b THEN 1 ELSE 0, "", <<>>)
FloatV(tenths) == Val("float", tenths, "", <<>>)
StrV(s) == Val("str", 0, s, <<>>)
ListV(items) == Val("list", 0, "", items)
SetV(items) == Val("set", 0, "", items)
TupleV(items) == Val("tuple", 0, "", items)
Pair(key, value) == Val("pair", 0, "", <<key, value>>)
DictV(pairs) == Val("dict", 0, "", pairs)
ParamsV(pairs) == Val("Params", 0, "", pairs)
EnumV(member) == Val("enum", 0, member, <<>>)
\* an instance of a class, with its attributes
ObjV(class, attrs) == Val("obj", 0, class, attrs)

(***************************************************************************)
(* Type descriptors: a class, a generic alias (origin and arguments), a    *)
(* Parameter or a Constructor.                                             *)
(***************************************************************************)
Type(o, args, parent, pname, ls) == [o |-> o, args |-> args, parent |-> parent, pname |-> pname, ls |-> ls]
Cls(name) == Type(name, <<>>, "", "", NoneV)
Generic(origin, args) == Type(origin, args, "", "", NoneV)
Parameter(c, parent, local_state, parameter_name) == Type("Parameter", <<c>>, parent, parameter_name, local_state)
Constructor(subclass) == Type("Constructor", <<subclass>>, "", "", NoneV)
\* typing.Literal[args]: its __args__ are kept as a tuple
Literal(args) == Type("Literal", <<>>, "", "", Val("tuple", 0, "", args))
\* a Constructor after constructor.parameters.pop(k) for each k of names,
\* which are kept as a list
Popping(constructor, names) ==
    IF names = <<>> THEN constructor
    ELSE [constructor EXCEPT !.ls = Val("list", 0, "", [i \in 1..Len(names) |-> Val("str", 0, names[i], <<>>)])]
\* the names popped from the parameters of a Constructor
popped(constructor) == IF constructor.ls.k = "list" THEN {constructor.ls.items[i].s : i \in 1..Len(constructor.ls.items)} ELSE {}
NoType == Cls("")

Origins == {"List", "Set", "Tuple", "Union", "Dict", "Literal", "DependentTypeCheck", "DependentFromObj", "DependentUnion"}
IsGenericAlias(t) == t.o \in Origins
IsClass(t) == ~IsGenericAlias(t) /\ t.o \notin {"Parameter", "Constructor", "Any", "None", ""}

(***************************************************************************)
(* Errors and outcomes.                                                    *)
(***************************************************************************)
KeyI(i) == [i |-> i, s |-> "", t |-> <<>>]
KeyS(s) == [i |-> 0, s |-> s, t |-> <<>>]
KeyT(t) == [i |-> 0, s |-> "", t |-> <<t>>]
KV(key, err) == [key |-> key, err |-> err]
TypeCheckError(e, target_cls, obj) == [e |-> e, tgt |-> target_cls, obj |-> obj, kv |-> <<>>, exc |-> "", msg |-> {}]
KeyValueError(target_cls, key_values, obj) == [e |-> "KeyValueError", tgt |-> target_cls, obj |-> obj, kv |-> key_values, exc |-> "", msg |-> {}]
UserDictError(target_cls, obj, exception) == [e |-> "UserDictError", tgt |-> target_cls, obj |-> obj, kv |-> <<>>, exc |-> exception, msg |-> {}]
\* a line "<sign> <key>: <type>" of the message of an error
Detail(sign, key, t) == [sign |-> sign, key |-> key, t |-> t]
\* KeyValueDiffError: its message lists the missing parameters, "- <name>:
\* <annotation>", and the additional keys, "+ <key>: <type of the value>"
KeyValueDiffError(target_cls, parameter_kv, obj_kv, obj) ==
    [e |-> "KeyValueDiffError", tgt |-> target_cls, obj |-> obj, kv |-> <<>>, exc |-> "", msg |-> parameter_kv \cup obj_kv]
\* ComplexTypeMismatchError: its message lists the possibilities, "- <name>: <class>"
ComplexTypeMismatchError(target_cls, possibilities, obj) ==
    [e |-> "ComplexTypeMismatchError", tgt |-> target_cls, obj |-> obj, kv |-> <<>>, exc |-> "",
     msg |-> {Detail("-", ch.name, Cls(ch.cls)) : ch \in possibilities}]

\* a call returned: None (err empty) or an error value, or a constructed value
Ret(v) == [st |-> "ret", err |-> <<>>, val |-> v, exc |-> ""]
RetNone == Ret(NoneV)
RetErr(e) == [st |-> "ret", err |-> <<e>>, val |-> NoneV, exc |-> ""]
\* a call raised: a TypeCheckError (kept in err) or another exception
RaiseErr(e) == [st |-> "raise", err |-> <<e>>, val |-> NoneV, exc |-> e.e]
Raise(exception) == [st |-> "raise", err |-> <<>>, val |-> NoneV, exc |-> exception]
NoOut == [st |-> "", err |-> <<>>, val |-> NoneV, exc |-> ""]

IsNone(o) == o.st = "ret" /\ o.err = <<>>
Returned(o) == o.st = "ret"
Raised(o) == o.st = "raise"

\* what a handler hands back: its outcome, the value as it left it, the
\* registry keys as it left them, and the orchestrator-level events
Res(o, obj, reg, lg) == [out |-> o, obj |-> obj, reg |-> reg, log |-> lg]
\* an event: a call of Base.type_check or Base.from_obj, with the unit that
\* Base.get chose for it ("" when it raised, "-" when it was not reached), or
\* the application of the alter of index idx, with how it ended; d counts the
\* orchestrator calls around it
Event(ev, idx, target_cls, obj, res) == [ev |-> ev, idx |-> idx, cls |-> target_cls, obj |-> obj, res |-> res, d |-> 0]
Shift(lg) == [i \in 1..Len(lg) |-> [lg[i] EXCEPT !.d = @ + 1]]

(***************************************************************************)
(* The classes of the modelled program: the built-ins, two enumerations    *)
(* registered with the Anum unit (Level also subclasses int), a registered *)
(* dataclass, and one Complex hierarchy rooted at Gym:                     *)
(*   Gym -(None)-> Food, Menu                                              *)
(*   Food -(None)-> Meat -("beef")-> Beef, -("pork")-> Pork                *)
(*   Food -(None)-> Fruit            (an intermediate without children)    *)
(*   Menu -("meal")-> Meal(snack: Fruit, main: Food)                       *)
(* Unregistered is a class no unit knows.                                  *)
(***************************************************************************)
\* the direct base class of a class ("" for object)
BaseOf(c) ==
    CASE c = "bool" -> "int"
      [] c = "Level" -> "int"
      [] c \in {"Food", "Menu"} -> "Gym"
      [] c \in {"Meat", "Fruit"} -> "Food"
      [] c \in {"Beef", "Pork"} -> "Meat"
      [] c = "Meal" -> "Menu"
      [] OTHER -> ""

RECURSIVE issubclass(_, _)
issubclass(c, d) ==
    IF c = d THEN TRUE
    ELSE IF BaseOf(c) = "" THEN FALSE
    ELSE issubclass(BaseOf(c), d)

\* type(obj).__name__ of a value
TypeOf(obj) ==
    CASE obj.k = "obj" -> obj.s
      [] obj.k = "enum" -> IF obj.s \in {"Low", "High"} THEN "Level" ELSE "Lift"
      [] obj.k = "None" -> "NoneType"
      [] OTHER -> obj.k

isinstance(obj, c) == issubclass(TypeOf(obj), c)

\* isinstance(obj, collections.abc.Iterable)
IsIterable(obj) == obj.k \in {"list", "set", "tuple", "str", "dict", "Params"}
\* isinstance(obj, collections.abc.Mapping)
IsMapping(obj) == obj.k \in {"dict", "Params"}

(***************************************************************************)
(* Strings.  A string is iterated character by character and parsed by     *)
(* int() and float(); the strings of the model are listed with their       *)
(* characters and their numeric readings.                                  *)
(***************************************************************************)
DigitStrs == <<"0", "1", "2", "3">>
IsIntStr(s) == \E i \in 1..Len(DigitStrs) : DigitStrs[i] = s
IntOfStr(s) == (CHOOSE i \in 1..Len(DigitStrs) : DigitStrs[i] = s) - 1
IsFloatStr(s) == IsIntStr(s) \/ s \in {"1.1", "1.5"}
FloatOfStr(s) == IF s = "1.1" THEN 11 ELSE IF s = "1.5" THEN 15 ELSE 10 * IntOfStr(s)
CharsOf(s) ==
    CASE s = "" -> <<>>
      [] s = "1.1" -> <<"1", ".", "1">>
      [] s = "1.5" -> <<"1", ".", "5">>
      [] s = "ab" -> <<"a", "b">>
      [] s = "True" -> <<"T", "r", "u", "e">>
      [] s = "False" -> <<"F", "a", "l", "s", "e">>
      [] OTHER -> <<s>>
\* str(obj) of the scalars of the model
ReprOf(obj) ==
    CASE obj.k = "str" -> obj.s
      [] obj.k = "bool" -> IF obj.n = 1 THEN "True" ELSE "False"
      [] obj.k = "int" /\ obj.n \in 0..3 -> DigitStrs[obj.n + 1]
      [] obj.k = "float" /\ obj.n = 11 -> "1.1"
      [] obj.k = "float" /\ obj.n = 15 -> "1.5"
      [] obj.k = "None" -> "None"
      [] OTHER -> "repr"

\* the elements a for loop over obj visits, in order
Iter(obj) ==
    CASE obj.k \in {"list", "set", "tuple"} -> obj.items
      [] obj.k = "str" -> [i \in 1..Len(CharsOf(obj.s)) |-> StrV(CharsOf(obj.s)[i])]
      [] obj.k \in {"dict", "Params"} -> [i \in 1..Len(obj.items) |-> obj.items[i].items[1]]
      [] OTHER -> <<>>

\* Python's == on the values that can meet in one set or as dict keys
PyEq(a, b) ==
    IF a.k \in {"int", "bool", "float"} /\ b.k \in {"int", "bool", "float"}
    THEN (IF a.k = "float" THEN a.n ELSE 10 * a.n) = (IF b.k = "float" THEN b.n ELSE 10 * b.n)
    ELSE a = b

\* hash(v) succeeds: not for the mutable containers, nor for an instance of
\* the dataclass Workout (eq without frozen leaves no __hash__)
IsHashableValue(v) == v.k \notin {"list", "set", "dict", "Params"} /\ ~(v.k = "obj" /\ v.s = "Workout")

\* the elements of seq without those equal to an earlier one
RECURSIVE Dedup(_)
Dedup(seq) ==
    IF seq = <<>> THEN <<>>
    ELSE LET init == Dedup(SubSeq(seq, 1, Len(seq) - 1))
             last == seq[Len(seq)]
         IN IF \E i \in 1..Len(init) : PyEq(init[i], last) THEN init ELSE Append(init, last)

(***************************************************************************)
(* Params (adorn/params.py): a mapping whose nested dicts are handed out   *)
(* wrapped as Params again.                                                *)
(***************************************************************************)
RECURSIVE _check_is_dict(_)
_check_is_dict(value) ==
    CASE value.k = "dict" -> ParamsV(value.items)
      [] value.k = "list" -> ListV([i \in 1..Len(value.items) |-> _check_is_dict(value.items[i])])
      [] OTHER -> value

HasKey(obj, key) == \E i \in 1..Len(obj.items) : obj.items[i].items[1] = StrV(key)
RawGet(obj, key) == obj.items[CHOOSE i \in 1..Len(obj.items) : obj.items[i].items[1] = StrV(key)].items[2]
\* Params.get(key): None when the key is missing
Params_get(obj, key) == IF HasKey(obj, key) THEN _check_is_dict(RawGet(obj, key)) ELSE NoneV
\* Params.__getitem__ and dict.__getitem__ of a key that is present
GetItem(obj, key) == IF obj.k = "Params" THEN _check_is_dict(RawGet(obj, key)) ELSE RawGet(obj, key)
\* the keys of a mapping with str keys, in order
Keys(obj) == [i \in 1..Len(obj.items) |-> obj.items[i].items[1].s]

(***************************************************************************)
(* Registries.  Python._registry and ParameterValue._registry are filled   *)
(* by the register decorators at import; Gym's registries are filled by    *)
(* the decorators of the hierarchy above.  Gym._registry is a defaultdict: *)
(* reading the entry of a class creates it, so its keys are state.         *)
(***************************************************************************)
\* Python._registry[Python], in registration order
PythonRegistry == <<"Int", "Str", "Bool", "Float", "Rterable", "Ret", "Ruple", "Rnion", "Rict">>
\* BuiltIn.base_type of each built-in handler
base_type(handler) ==
    CASE handler = "Int" -> "int"
      [] handler = "Str" -> "str"
      [] handler = "Bool" -> "bool"
      [] handler = "Float" -> "float"
      [] OTHER -> ""
\* BuiltIn.unacceptable_subtype
unacceptable_subtype(handler) == IF handler = "Int" THEN {"bool"} ELSE {}
\* Unit.hashable of each handler
hashable(handler) == handler \in {"Int", "Str", "Bool", "Float"}

\* Gymnum._registry: the members of each registered enumeration
AnumRegistry(c) ==
    CASE c = "Lift" -> {"Squat", "Bench", "Deadlift"}
      [] c = "Level" -> {"Low", "High"}
      [] OTHER -> {}
AnumClasses == {"Lift", "Level"}
\* GymData._registry
DataClassRegistry == {"Workout"}

\* Gym._subclass_registry: the classes registered under a name
_subclass_registry == {"Beef", "Pork", "Meal"}
\* Complex.name
name(c) ==
    CASE c = "Beef" -> "beef"
      [] c = "Pork" -> "pork"
      [] c = "Meal" -> "meal"
      [] OTHER -> ""
\* Complex.name, as a call: a class that has no name raises
Complex_name(c) == IF c \notin _subclass_registry THEN Raise("Exception") ELSE Ret(StrV(name(c)))
\* Gym._registry[c].values(): the classes registered under a name with c
NamedChildren(c) ==
    CASE c = "Meat" -> <<"Beef", "Pork">>
      [] c = "Menu" -> <<"Meal">>
      [] OTHER -> <<>>
\* Gym._parent_registry.get(c, []): Complex.get_intermediate_children
get_intermediate_children(c) ==
    CASE c = "Gym" -> <<"Food", "Menu">>
      [] c = "Food" -> <<"Meat", "Fruit">>
      [] OTHER -> <<>>
\* the keys Gym._registry has once every decorator has run: the classes
\* whose register was called
InitialRegistry == {"Gym", "Food", "Meat", "Menu"}

\* the classes whose entry of Gym._registry a call of
\* c.get_instantiate_children() reads, and so creates
RECURSIVE Exploded(_)
Exploded(c) ==
    {c} \cup UNION {Exploded(NamedChildren(c)[i]) : i \in 1..Len(NamedChildren(c))}
        \cup UNION {Exploded(get_intermediate_children(c)[i]) : i \in 1..Len(get_intermediate_children(c))}

\* a faulty Complex.get_instantiate_children: _explode_registry lists every
\* class it meets, registered under a name or not
get_instantiate_children_all(c) == {[name |-> name(d), cls |-> d] : d \in Exploded(c)}
\* a faulty Complex.get_instantiate_children: the class and the classes
\* registered with it under a name, and none below them
get_instantiate_children_direct(c) ==
    {[name |-> name(d), cls |-> d] : d \in ({c} \cup {NamedChildren(c)[i] : i \in 1..Len(NamedChildren(c))}) \cap _subclass_registry}
\* Complex.get_instantiate_children: the names and classes of the
\* constructible descendants
get_instantiate_children(c) == {[name |-> name(d), cls |-> d] : d \in Exploded(c) \cap _subclass_registry}
ChildNames(c) == {ch.name : ch \in get_instantiate_children(c)}
\* Complex.resolve_class_name
resolve_class_name(c, n) == (CHOOSE ch \in get_instantiate_children(c) : ch.name = n).cls

\* inspect.signature of the constructors: name, annotation, has a default
Param(n, annotation, has_default) == [name |-> n, annotation |-> annotation, has_default |-> has_default]
parameters(c) ==
    CASE c = "Workout" -> <<Param("lift", Cls("Lift"), FALSE), Param("reps", Cls("int"), FALSE),
                            Param("weight", Cls("float"), FALSE), Param("maxed", Cls("bool"), TRUE)>>
      [] c \in {"Meat", "Beef", "Pork"} -> <<Param("weight", Cls("float"), FALSE)>>
      [] c = "Meal" -> <<Param("snack", Cls("Fruit"), FALSE), Param("main", Cls("Food"), FALSE)>>
      [] OTHER -> <<>>
HasParam(c, n) == \E i \in 1..Len(parameters(c)) : parameters(c)[i].name = n
ParamOf(c, n) == parameters(c)[CHOOSE i \in 1..Len(parameters(c)) : parameters(c)[i].name = n]
\* the parameter_order attribute of a class, <<>> for None: Meal declares
\* that snack is made before main
parameter_order(c) == IF c = "Meal" THEN <<"snack", "main">> ELSE <<>>

(***************************************************************************)
(* The register decorators.  A Simple unit keeps _registry[cls], a dict     *)
(* from name to handler; Complex.root gives the root of a hierarchy four   *)
(* registries, and cls.register(name)(subclass) fills them.  A dict is the  *)
(* set of its (key, value) entries and a list the sequence of its appends. *)
(***************************************************************************)
\* the registries after Complex.root, with those of the Simple units empty
Rooted == [simple_registry |-> {}, registry |-> {}, subclass_registry |-> {}, intermediate_registry |-> <<>>, parent_registry |-> <<>>]
\* a class as the value a decorator returns
ClassV(c) == Val("type", 0, c, <<>>)
\* the outcome of a decorator, with the registries and the keys of
\* _registry as it leaves them
Registered(o, r, keys) == [out |-> o, registries |-> r, keys |-> keys]

\* Simple.register(name)(subclass)
Simple_register(cls, name_, subclass, r, keys) ==
    IF \E e \in r.simple_registry : e.scope = cls /\ e.name = name_
    THEN Registered(Raise("ConfigurationError"), r, keys)
    ELSE Registered(Ret(ClassV(subclass)),
                    [r EXCEPT !.simple_registry = @ \cup {[scope |-> cls, name |-> name_, cls |-> subclass]}], keys)

\* a faulty Complex.register: a name in use is given to the new class
Complex_register_overwrite(cls, name_, subclass, r, keys) ==
    Registered(Ret(ClassV(subclass)),
               [r EXCEPT !.registry = {e \in @ : ~(e.scope = cls /\ e.name = name_.s)} \cup {[scope |-> cls, name |-> name_.s, cls |-> subclass]}],
               keys \cup {cls})

\* Complex.register(name)(subclass); name is a str or None, and reading
\* cls._registry[cls] creates the key cls
Complex_register(cls, name_, subclass, r, keys) ==
    IF name_ # NoneV
    THEN IF \E e \in r.registry : e.scope = cls /\ e.name = name_.s
         THEN Registered(Raise("ConfigurationError"), r, keys \cup {cls})
         ELSE LET subclass_registry == {e \in r.subclass_registry : e.cls # subclass}
                                          \cup {[cls |-> subclass, parent |-> cls, name |-> name_.s]}
                  parents == {e.parent : e \in {f \in subclass_registry : f.cls = cls}}
              IN Registered(Ret(ClassV(subclass)),
                            [r EXCEPT !.registry = @ \cup {[scope |-> cls, name |-> name_.s, cls |-> subclass]},
                                      !.subclass_registry = subclass_registry,
                                      !.parent_registry = IF parents = {} THEN @
                                                          ELSE Append(@, <<CHOOSE parent \in parents : TRUE, cls>>)],
                            keys \cup {cls})
    ELSE Registered(Ret(ClassV(subclass)),
                    [r EXCEPT !.intermediate_registry = Append(@, <<subclass, cls>>),
                              !.parent_registry = Append(@, <<cls, subclass>>)],
                    keys \cup {cls})

\* the decorators of the modelled program, in import order
Decorators ==
    << <<"Gym", NoneV, "Food">>, <<"Food", NoneV, "Meat">>, <<"Meat", StrV("beef"), "Beef">>, <<"Meat", StrV("pork"), "Pork">>,
       <<"Food", NoneV, "Fruit">>, <<"Gym", NoneV, "Menu">>, <<"Menu", StrV("meal"), "Meal">> >>
RECURSIVE Decorated(_)
Decorated(n) ==
    IF n = 0 THEN Registered(NoOut, Rooted, {})
    ELSE Complex_register(Decorators[n][1], Decorators[n][2], Decorators[n][3], Decorated(n - 1).registries, Decorated(n - 1).keys)
\* the registries once the program is imported
Imported == Decorated(Len(Decorators)).registries

(***************************************************************************)
(* contains: which unit claims a type.                                     *)
(***************************************************************************)
RECURSIVE Base_contains(_, _), Unit_contains(_, _, _), relevant_types(_, _), Handler__contains(_, _, _)

\* the orchestrator argument of the units and handlers: its contains, get,
\* type_check and from_obj are those of Base
RECURSIVE Orchestrator(_, _, _, _)
orchestrator_contains(t, reg) == Orchestrator("contains", t, NoneV, reg)
orchestrator_get(t, reg) == Orchestrator("get", t, NoneV, reg)
orchestrator_type_check(cls, obj, reg) == Orchestrator("type_check", cls, obj, reg)
orchestrator_from_obj(cls, obj, reg) == Orchestrator("from_obj", cls, obj, reg)
orchestrator_alter_obj(cls, obj, reg) == Orchestrator("alter_obj", cls, obj, reg)
orchestrator_local_state_after(cls, obj, reg) == Orchestrator("type_check.local_state", cls, obj, reg)
orchestrator_local_state_made(cls, obj, reg) == Orchestrator("from_obj.local_state", cls, obj, reg)
\* the methods of Dependent its variants call on cls, which call the
\* orchestrator in turn, and the local state of a Parameter they leave
cls_perfunctory_type_check(target_cls, obj, reg, dependent_from_obj) ==
    Orchestrator(IF dependent_from_obj THEN "perfunctory_type_check.dependent_from_obj" ELSE "perfunctory_type_check", target_cls, obj, reg)
cls_general_check(cls, obj, reg, is_from_obj) ==
    Orchestrator(IF is_from_obj THEN "general_check.is_from_obj" ELSE "general_check", cls, obj, reg)
cls_get_parameter(target_cls, obj, reg) == Orchestrator("get_parameter", target_cls, obj, reg)
cls__from_obj(target_cls, obj, reg) == Orchestrator("_from_obj", target_cls, obj, reg)
cls_local_state_after(target_cls, obj, reg) == Orchestrator("_type_check.local_state", target_cls, obj, reg)
cls_local_state_made(target_cls, obj, reg) == Orchestrator("_from_obj.local_state", target_cls, obj, reg)

\* BuiltIn._contains
BuiltIn__contains(handler, t) ==
    ~IsGenericAlias(t) /\ issubclass(t.o, base_type(handler)) /\ t.o \notin unacceptable_subtype(handler)

\* the _contains of each handler registered with the Python unit
Handler__contains(handler, t, reg) ==
    CASE handler \in {"Int", "Str", "Bool", "Float"} -> BuiltIn__contains(handler, t)
      [] handler = "Rterable" -> t.o = "List" /\ Len(t.args) = 1 /\ orchestrator_contains(t.args[1], reg)
      [] handler = "Ret" -> t.o = "Set" /\ Len(t.args) = 1 /\ orchestrator_contains(t.args[1], reg)
      [] handler = "Ruple" -> t.o = "Tuple" /\ \A i \in 1..Len(t.args) : orchestrator_contains(t.args[i], reg)
      [] handler = "Rnion" -> t.o = "Union" /\ \A i \in 1..Len(t.args) : orchestrator_contains(t.args[i], reg)
      [] handler = "Rict" -> t.o = "Dict" /\ Len(t.args) = 2 /\ \A i \in 1..Len(t.args) : orchestrator_contains(t.args[i], reg)
      [] OTHER -> FALSE

\* Simple.relevant_types of the Python unit
relevant_types(t, reg) == SelectSeq(PythonRegistry, LAMBDA h : Handler__contains(h, t, reg))

\* Python.contains
Python_contains(t, reg) == (IsClass(t) \/ IsGenericAlias(t)) /\ relevant_types(t, reg) # <<>>
\* Python.get
Python_get(t, reg) == IF relevant_types(t, reg) = <<>> THEN "" ELSE Head(relevant_types(t, reg))

\* Rone._contains and Nny._contains, through Value.contains
Value_contains(t) == t.o \in {"None", "NoneType", "Any"}
\* Value.get
Value_get(t) == IF t.o = "Any" THEN "Nny" ELSE IF t.o \in {"None", "NoneType"} THEN "Rone" ELSE ""

\* the handlers registered with the ParameterValue unit, in the order of
\* their registration, and those that subclass Dependent
ParameterValueRegistry == <<"Identity", "DependentTypeCheck", "DependentFromObj", "DependentUnion">>
Dependents == {"DependentTypeCheck", "DependentFromObj", "DependentUnion"}
\* DependentUnion.get_parameter_subtype: the Parameter of a candidate, with
\* the parent, the local state and the name of the union's
get_parameter_subtype(target_cls, arg) == Parameter(arg, target_cls.parent, target_cls.ls, target_cls.pname)
\* the _contains of each handler registered with the ParameterValue unit;
\* Identity keeps that of Simple
ParameterValue__contains(handler, t, reg) ==
    CASE handler \in {"DependentTypeCheck", "DependentFromObj"} ->
            /\ t.args[1].o = handler
            /\ orchestrator_contains(t.args[1].args[1], reg)
            /\ issubclass(t.args[1].args[1].o, "Gym")
      [] handler = "DependentUnion" ->
            /\ t.args[1].o = handler
            /\ t.args[1].args[1].o \in Dependents
            /\ \A i \in 1..2 : orchestrator_contains(get_parameter_subtype(t, t.args[1].args[i]), reg)
      [] OTHER -> FALSE
\* Simple._get of the ParameterValue unit: the first handler that contains
\* the Parameter
ParameterValue__get(t, reg) ==
    LET First(claims) ==
            IF \E i \in 1..Len(claims) : claims[i]
            THEN ParameterValueRegistry[CHOOSE i \in 1..Len(claims) : claims[i] /\ \A j \in 1..(i - 1) : ~claims[j]]
            ELSE ""
    IN First([i \in 1..Len(ParameterValueRegistry) |-> ParameterValue__contains(ParameterValueRegistry[i], t, reg)])
\* ParameterValue.get: a Parameter no registered variant claims defaults to
\* Identity when the orchestrator knows its type
ParameterValue_get(t, reg) ==
    LET Default(ru) == IF ru # "" THEN ru ELSE IF orchestrator_contains(t.args[1], reg) THEN "Identity" ELSE ""
    IN IF t.o # "Parameter" THEN "" ELSE Default(ParameterValue__get(t, reg))
\* ParameterValue.contains
ParameterValue_contains(t, reg) == t.o = "Parameter" /\ ParameterValue_get(t, reg) # ""

\* ConstructorValue.contains
ConstructorValue_contains(t) == t.o = "Constructor"
\* Anum.contains
Anum_contains(t) == IsClass(t) /\ t.o \in AnumClasses
\* DataClass.contains
DataClass_contains(t) == IsClass(t) /\ t.o \in DataClassRegistry
\* Complex.match
Complex_match(t) == ~IsGenericAlias(t) /\ IsClass(t) /\ issubclass(t.o, "Gym")
\* Complex._contains
Complex__contains(c, reg) == c \in _subclass_registry \/ c \in reg
\* Complex.contains
Complex_contains(t, reg) == Complex_match(t) /\ Complex__contains(t.o, reg)

\* unit.contains(t, orchestrator) of the unit of that name
Unit_contains(unit, t, reg) ==
    CASE unit = "Value" -> Value_contains(t)
      [] unit = "ParameterValue" -> ParameterValue_contains(t, reg)
      [] unit = "ConstructorValue" -> ConstructorValue_contains(t)
      [] unit = "Python" -> Python_contains(t, reg)
      [] unit = "Anum" -> Anum_contains(t)
      [] unit = "DataClass" -> DataClass_contains(t)
      [] unit = "Complex" -> Complex_contains(t, reg)
      [] OTHER -> FALSE

\* Base.contains
Base_contains(t, reg) == \E i \in 1..Len(units) : Unit_contains(units[i], t, reg)

\* a faulty Base.get: the last claiming unit instead of the first
Base_get_last(t, reg) ==
    IF \E i \in 1..Len(units) : Unit_contains(units[i], t, reg)
    THEN units[CHOOSE i \in 1..Len(units) : Unit_contains(units[i], t, reg)
                     /\ \A j \in (i + 1)..Len(units) : ~Unit_contains(units[j], t, reg)]
    ELSE ""

\* Base.get: the first unit, in the order of units, that contains the type;
\* "" stands for the TypeCheckError it raises when there is none
Base_get(t, reg) ==
    IF \E i \in 1..Len(units) : Unit_contains(units[i], t, reg)
    THEN units[CHOOSE i \in 1..Len(units) : Unit_contains(units[i], t, reg)
                     /\ \A j \in 1..(i - 1) : ~Unit_contains(units[j], t, reg)]
    ELSE ""

(***************************************************************************)
(* The orchestrator (adorn/orchestrator/base.py) and the alters.  Every    *)
(* handler takes the registry keys as they are when it is called and hands *)
(* them back as it leaves them.                                            *)
(***************************************************************************)
RECURSIVE Base_type_check(_, _, _), Base_from_obj(_, _, _), Unit_type_check(_, _, _, _), Unit_from_obj(_, _, _, _)
RECURSIVE TypeCheckUpTo(_, _, _, _), FromObjUpTo(_, _, _, _), ApplyAlters(_, _, _, _)

\* the orchestrator's type_check of elems[i] against types[i] for i = 1..n,
\* in order: the outcomes, or the exception that ended the loop
TypeCheckUpTo(types, elems, reg, n) ==
    IF n = 0 THEN [outs |-> <<>>, reg |-> reg, log |-> <<>>, exc |-> NoOut]
    ELSE LET init == TypeCheckUpTo(types, elems, reg, n - 1)
         IN IF Raised(init.exc) THEN init
            ELSE LET r == orchestrator_type_check(types[n], elems[n], init.reg)
                 IN [outs |-> IF Raised(r.out) THEN init.outs ELSE Append(init.outs, r.out),
                     reg |-> r.reg,
                     log |-> init.log \o r.log,
                     exc |-> IF Raised(r.out) THEN r.out ELSE NoOut]
TypeCheckAll(types, elems, reg) == Orchestrator("type_check.all", types, elems, reg)

\* the orchestrator's from_obj of elems[i] as types[i] for i = 1..n, in
\* order: the instances, the elements as the calls left them, or the
\* exception that ended the loop
FromObjUpTo(types, elems, reg, n) ==
    IF n = 0 THEN [vals |-> <<>>, objs |-> elems, reg |-> reg, log |-> <<>>, exc |-> NoOut]
    ELSE LET init == FromObjUpTo(types, elems, reg, n - 1)
         IN IF Raised(init.exc) THEN init
            ELSE LET r == orchestrator_from_obj(types[n], elems[n], init.reg)
                 IN [vals |-> IF Raised(r.out) THEN init.vals ELSE Append(init.vals, r.out.val),
                     objs |-> [init.objs EXCEPT ![n] = r.obj],
                     reg |-> r.reg,
                     log |-> init.log \o r.log,
                     exc |-> IF Raised(r.out) THEN r.out ELSE NoOut]
FromObjAll(types, elems, reg) == Orchestrator("from_obj.all", types, elems, reg)

\* n copies of x
Repeat(x, n) == [i \in 1..n |-> x]
\* the indices of seq, in order, whose outcome is an error
Failing(outs) == SelectSeq([i \in 1..Len(outs) |-> i], LAMBDA i : ~IsNone(outs[i]))

\* UserDictAlter.type_value
type_value == "user_dict"
\* the keys and the value of a key of the user_dict of the alter of index i
UserDictHas(i, key) == key.k = "str" /\ HasKey(alters[i], key.s)
UserDictValue(i, key) == RawGet(alters[i], key.s)

\* UserDictAlter.a_contains
UserDictAlter_a_contains(i, target_cls, obj) ==
    /\ target_cls.o = "Parameter"
    /\ obj.k = "Params"
    /\ Params_get(obj, "type") = StrV(type_value)
    /\ UserDictHas(i, Params_get(obj, "key"))

\* UserDictAlter.alter_obj of the alter of index i; cur is what the alters
\* before it made of the value: a value, or an error object
UserDictAlter_alter_obj(i, target_cls, cur, reg) ==
    LET ev(res) == <<Event("alter", i, target_cls, cur.val, res)>>
        key == IF cur.val.k = "Params" THEN Params_get(cur.val, "key")
               ELSE IF HasKey(cur.val, "key") THEN RawGet(cur.val, "key") ELSE NoneV
    IN IF cur.err # <<>> \/ ~IsMapping(cur.val) THEN Res(Raise("AttributeError"), cur.val, reg, ev("AttributeError"))
       ELSE IF ~IsHashableValue(key) THEN Res(Raise("TypeError"), cur.val, reg, ev("TypeError"))
       ELSE IF ~UserDictHas(i, key) THEN Res(Raise("KeyError"), cur.val, reg, ev("KeyError"))
       ELSE LET Substituted(r) ==
                    IF Raised(r.out)
                    THEN Res(RetErr(UserDictError(target_cls, cur.val, r.out.exc)), cur.val, r.reg, ev("UserDictError") \o Shift(r.log))
                    ELSE Res(Ret(r.out.val), cur.val, r.reg, ev("substituted") \o Shift(r.log))
            IN Substituted(orchestrator_from_obj(target_cls.args[1], UserDictValue(i, key), reg))

\* Base.a_get: every alter that claims the pair, in the order of alters
Base_a_get(cls, obj) ==
    SelectSeq([i \in 1..Len(alters) |-> i], LAMBDA i : UserDictAlter_a_contains(i, cls, obj))

\* the loop of Base.alter_obj over alter_list
ApplyAlters(alter_list, cls, cur, reg) ==
    IF alter_list = <<>> THEN Res(cur, cur.val, reg, <<>>)
    ELSE LET Then(r, rest) == Res(rest.out, rest.obj, rest.reg, r.log \o rest.log)
             Altered(r) == IF Raised(r.out) THEN r ELSE Then(r, ApplyAlters(Tail(alter_list), cls, r.out, r.reg))
         IN Altered(UserDictAlter_alter_obj(Head(alter_list), cls, cur, reg))

\* Base.alter_obj
Base_alter_obj(cls, obj, reg) == ApplyAlters(Base_a_get(cls, obj), cls, Ret(obj), reg)

\* a faulty Base.type_check: a type no unit contains is answered with an
\* error that is returned
Base_type_check_returning(cls, obj, reg) ==
    LET checked(a) ==
            LET reached == Returned(a.out) /\ a.out.err = <<>>
                ru == orchestrator_get(cls, a.reg)
                entry == <<Event("type_check", 0, cls, obj, IF reached THEN ru ELSE "-")>>
                answered(r) ==
                    Res(r.out, IF Base_a_get(cls, obj) = <<>> THEN r.obj ELSE obj, r.reg, entry \o a.log \o Shift(r.log))
            IN IF Raised(a.out) \/ a.out.err # <<>> THEN Res(a.out, obj, a.reg, entry \o a.log)
               ELSE IF ru = "" THEN Res(RetErr(TypeCheckError("UnRepresentedTypeError", cls, obj)), obj, a.reg, entry \o a.log)
               ELSE answered(Unit_type_check(ru, cls, a.out.val, a.reg))
    IN checked(orchestrator_alter_obj(cls, obj, reg))

\* Base.type_check
Base_type_check(cls, obj, reg) ==
    LET checked(a) ==
            LET reached == Returned(a.out) /\ a.out.err = <<>>
                ru == orchestrator_get(cls, a.reg)
                entry == <<Event("type_check", 0, cls, obj, IF reached THEN ru ELSE "-")>>
                answered(r) ==
                    Res(r.out, IF Base_a_get(cls, obj) = <<>> THEN r.obj ELSE obj, r.reg, entry \o a.log \o Shift(r.log))
            IN IF Raised(a.out) \/ a.out.err # <<>> THEN Res(a.out, obj, a.reg, entry \o a.log)
               ELSE IF ru = "" THEN Res(RaiseErr(TypeCheckError("TypeCheckError", cls, NoneV)), obj, a.reg, entry \o a.log)
               ELSE answered(Unit_type_check(ru, cls, a.out.val, a.reg))
    IN checked(orchestrator_alter_obj(cls, obj, reg))

\* Base.from_obj
Base_from_obj(cls, obj, reg) ==
    LET made(a) ==
            LET reached == Returned(a.out) /\ a.out.err = <<>>
                ru == orchestrator_get(cls, a.reg)
                entry == <<Event("from_obj", 0, cls, obj, IF reached THEN ru ELSE "-")>>
                answered(r) ==
                    Res(r.out, IF Base_a_get(cls, obj) = <<>> THEN r.obj ELSE obj, r.reg, entry \o a.log \o Shift(r.log))
            IN IF Raised(a.out) THEN Res(a.out, obj, a.reg, entry \o a.log)
               ELSE IF a.out.err # <<>> THEN Res(RaiseErr(a.out.err[1]), obj, a.reg, entry \o a.log)
               ELSE IF ru = "" THEN Res(RaiseErr(TypeCheckError("TypeCheckError", cls, NoneV)), obj, a.reg, entry \o a.log)
               ELSE answered(Unit_from_obj(ru, cls, a.out.val, a.reg))
    IN made(orchestrator_alter_obj(cls, obj, reg))

(***************************************************************************)
(* Validation: the type_check of each unit.                                *)
(***************************************************************************)
WrongTypeError(target_cls, obj) == TypeCheckError("WrongTypeError", target_cls, obj)
UnRepresentedTypeError(target_cls, obj) == TypeCheckError("UnRepresentedTypeError", target_cls, obj)
HashableError(target_cls, obj) == TypeCheckError("HashableError", target_cls, obj)
TupleArgLenError(target_cls, obj) == TypeCheckError("TupleArgLenError", target_cls, obj)
ParamError(target_cls, obj) == TypeCheckError("ParamError", target_cls, obj)

\* a handler that calls nothing: its outcome, with the value and the
\* registry keys untouched
Done(o, obj, reg) == Res(o, obj, reg, <<>>)

\* Int.additional_checks, and BuiltIn.additional_checks for the others
additional_checks(handler, obj) ==
    IF handler = "Int" /\ TypeOf(obj) = "bool" THEN RetErr(WrongTypeError(Cls("int"), obj)) ELSE RetNone

\* a faulty BuiltIn._type_check: any object passes
BuiltIn__type_check_lax(handler, target_cls, obj) ==
    RetNone

\* BuiltIn._type_check
BuiltIn__type_check(handler, target_cls, obj) ==
    IF ~isinstance(obj, base_type(handler)) THEN RetErr(WrongTypeError(Cls(base_type(handler)), obj))
    ELSE additional_checks(handler, obj)

\* the unit whose handler says whether the elements hash:
\* orchestrator.get(target_arg).get(target_arg, orchestrator)
ElementHandler(target_arg, reg) ==
    LET unit == orchestrator_get(target_arg, reg)
    IN CASE unit = "Python" -> Python_get(target_arg, reg)
         [] unit = "Value" -> Value_get(target_arg)
         [] unit = "ParameterValue" -> ParameterValue_get(target_arg, reg)
         [] unit = "ConstructorValue" -> "BaseConstructorValue"
         [] OTHER -> target_arg.o
\* whether reading the hashable attribute of that handler works: the Anum
\* and DataClass units hand out the registered class itself, which has none
HasHashableAttr(target_arg, reg) == orchestrator_get(target_arg, reg) \notin {"Anum", "DataClass"}

\* Wrapper.is_hashable
Wrapper_is_hashable(target_cls, target_arg, obj, reg) ==
    IF ~orchestrator_contains(target_arg, reg) THEN RetErr(UnRepresentedTypeError(target_cls, obj))
    ELSE IF ~HasHashableAttr(target_arg, reg) THEN Raise("AttributeError")
    ELSE IF ~hashable(ElementHandler(target_arg, reg)) THEN RetErr(HashableError(target_cls, obj))
    ELSE RetNone

\* the key_values of the failing outcomes, keyed by position (0-based)
KeyedByPosition(outs) == [j \in 1..Len(Failing(outs)) |-> KV(KeyI(Failing(outs)[j] - 1), outs[Failing(outs)[j]].err[1])]
\* the key_values of the failing outcomes, enumerated from 0
Enumerated(outs) == [j \in 1..Len(Failing(outs)) |-> KV(KeyI(j - 1), outs[Failing(outs)[j]].err[1])]

\* a Ret._type_check that keys the failures by the position of the element
Ret__type_check_positions(target_cls, obj, reg) ==
    LET target_arg == target_cls.args[1]
        hashable_error == Wrapper_is_hashable(target_cls, target_arg, obj, reg)
        c == TypeCheckAll(Repeat(target_arg, Len(Iter(obj))), Iter(obj), reg)
    IN IF IsIterable(obj)
       THEN IF ~IsNone(hashable_error) THEN Done(hashable_error, obj, reg)
            ELSE IF Raised(c.exc) THEN Res(c.exc, obj, c.reg, c.log)
            ELSE IF Failing(c.outs) # <<>>
            THEN Res(RetErr(KeyValueError(target_cls, KeyedByPosition(c.outs), obj)), obj, c.reg, c.log)
            ELSE Res(RetNone, obj, c.reg, c.log)
       ELSE Done(RetErr(WrongTypeError(target_cls, obj)), obj, reg)

\* a faulty Rterable._type_check: the loop ends at the first failure
Rterable__type_check_short(target_cls, obj, reg) ==
    LET target_arg == target_cls.args[1]
        c == TypeCheckAll(Repeat(target_arg, Len(Iter(obj))), Iter(obj), reg)
    IN IF obj.k # "set" /\ IsIterable(obj)
       THEN IF Raised(c.exc) THEN Res(c.exc, obj, c.reg, c.log)
            ELSE IF Failing(c.outs) # <<>>
            THEN Res(RetErr(KeyValueError(target_cls, <<KeyedByPosition(c.outs)[1]>>, obj)), obj, c.reg, c.log)
            ELSE Res(RetNone, obj, c.reg, c.log)
       ELSE Done(RetErr(WrongTypeError(target_cls, obj)), obj, reg)

\* Rterable._type_check
Rterable__type_check(target_cls, obj, reg) ==
    LET target_arg == target_cls.args[1]
        c == TypeCheckAll(Repeat(target_arg, Len(Iter(obj))), Iter(obj), reg)
    IN IF obj.k # "set" /\ IsIterable(obj)
       THEN IF Raised(c.exc) THEN Res(c.exc, obj, c.reg, c.log)
            ELSE IF Failing(c.outs) # <<>>
            THEN Res(RetErr(KeyValueError(target_cls, KeyedByPosition(c.outs), obj)), obj, c.reg, c.log)
            ELSE Res(RetNone, obj, c.reg, c.log)
       ELSE Done(RetErr(WrongTypeError(target_cls, obj)), obj, reg)

\* Ret._type_check
Ret__type_check(target_cls, obj, reg) ==
    LET target_arg == target_cls.args[1]
        hashable_error == Wrapper_is_hashable(target_cls, target_arg, obj, reg)
        c == TypeCheckAll(Repeat(target_arg, Len(Iter(obj))), Iter(obj), reg)
    IN IF IsIterable(obj)
       THEN IF ~IsNone(hashable_error) THEN Done(hashable_error, obj, reg)
            ELSE IF Raised(c.exc) THEN Res(c.exc, obj, c.reg, c.log)
            ELSE IF Failing(c.outs) # <<>>
            THEN Res(RetErr(KeyValueError(target_cls, Enumerated(c.outs), obj)), obj, c.reg, c.log)
            ELSE Res(RetNone, obj, c.reg, c.log)
       ELSE Done(RetErr(WrongTypeError(target_cls, obj)), obj, reg)

\* Ruple._type_check
Ruple__type_check(target_cls, obj, reg) ==
    LET target_args == target_cls.args
        c == TypeCheckAll(target_args, Iter(obj), reg)
    IN IF obj.k # "dict" /\ IsIterable(obj)
       THEN IF Len(target_args) # Len(Iter(obj)) THEN Done(RetErr(TupleArgLenError(target_cls, obj)), obj, reg)
            ELSE IF Raised(c.exc) THEN Res(c.exc, obj, c.reg, c.log)
            ELSE IF Failing(c.outs) # <<>>
            THEN Res(RetErr(KeyValueError(target_cls, KeyedByPosition(c.outs), obj)), obj, c.reg, c.log)
            ELSE Res(RetNone, obj, c.reg, c.log)
       ELSE Done(RetErr(WrongTypeError(target_cls, obj)), obj, reg)

\* a faulty Rnion._type_check: every member has to validate
Rnion__type_check_all(target_cls, obj, reg) ==
    LET target_args == target_cls.args
        c == TypeCheckAll(target_args, Repeat(obj, Len(target_args)), reg)
    IN IF Raised(c.exc) THEN Res(c.exc, obj, c.reg, c.log)
       ELSE IF \E i \in 1..Len(c.outs) : ~IsNone(c.outs[i])
       THEN Res(RetErr(KeyValueError(target_cls,
                [j \in 1..Len(Failing(c.outs)) |-> KV(KeyT(target_args[Failing(c.outs)[j]]), c.outs[Failing(c.outs)[j]].err[1])], obj)),
                obj, c.reg, c.log)
       ELSE Res(RetNone, obj, c.reg, c.log)

\* Rnion._type_check
Rnion__type_check(target_cls, obj, reg) ==
    LET target_args == target_cls.args
        c == TypeCheckAll(target_args, Repeat(obj, Len(target_args)), reg)
    IN IF Raised(c.exc) THEN Res(c.exc, obj, c.reg, c.log)
       ELSE IF \A i \in 1..Len(c.outs) : ~IsNone(c.outs[i])
       THEN Res(RetErr(KeyValueError(target_cls,
                [i \in 1..Len(c.outs) |-> KV(KeyT(target_args[i]), c.outs[i].err[1])], obj)),
                obj, c.reg, c.log)
       ELSE Res(RetNone, obj, c.reg, c.log)

\* the (key, value) pairs obj.items() yields, flattened: k1, v1, k2, v2, ...
Items(obj) == [j \in 1..(2 * Len(obj.items)) |->
                  IF j % 2 = 1 THEN obj.items[(j + 1) \div 2].items[1]
                  ELSE IF obj.k = "Params" THEN _check_is_dict(obj.items[j \div 2].items[2])
                  ELSE obj.items[j \div 2].items[2]]
\* the outcomes at the odd (key) or the even (value) positions
Odd(outs) == [j \in 1..(Len(outs) \div 2) |-> outs[2 * j - 1]]
Even(outs) == [j \in 1..(Len(outs) \div 2) |-> outs[2 * j]]
\* the key_values of the failing outcomes under key "<prefix>_<type>_<n>"
Prefixed(prefix, t, outs) ==
    [j \in 1..Len(Failing(outs)) |-> KV([i |-> j - 1, s |-> prefix, t |-> <<t>>], outs[Failing(outs)[j]].err[1])]

\* a faulty Rict._type_check: the values are checked and not reported
Rict__type_check_keys(target_cls, obj, reg) ==
    LET target_args == target_cls.args
        hashable_error == Wrapper_is_hashable(target_cls, target_args[1], obj, reg)
        c == TypeCheckAll([j \in 1..(2 * Len(obj.items)) |-> target_args[2 - (j % 2)]], Items(obj), reg)
        keys == Odd(c.outs)
    IN IF ~IsMapping(obj) THEN Done(RetErr(WrongTypeError(target_cls, obj)), obj, reg)
       ELSE IF ~IsNone(hashable_error) THEN Done(hashable_error, obj, reg)
       ELSE IF Raised(c.exc) THEN Res(c.exc, obj, c.reg, c.log)
       ELSE IF Failing(keys) # <<>>
       THEN Res(RetErr(KeyValueError(target_cls, Prefixed("key", target_args[1], keys), obj)), obj, c.reg, c.log)
       ELSE Res(RetNone, obj, c.reg, c.log)

\* Rict._type_check
Rict__type_check(target_cls, obj, reg) ==
    LET target_args == target_cls.args
        hashable_error == Wrapper_is_hashable(target_cls, target_args[1], obj, reg)
        c == TypeCheckAll([j \in 1..(2 * Len(obj.items)) |-> target_args[2 - (j % 2)]], Items(obj), reg)
        keys == Odd(c.outs)
        values == Even(c.outs)
    IN IF ~IsMapping(obj) THEN Done(RetErr(WrongTypeError(target_cls, obj)), obj, reg)
       ELSE IF ~IsNone(hashable_error) THEN Done(hashable_error, obj, reg)
       ELSE IF Raised(c.exc) THEN Res(c.exc, obj, c.reg, c.log)
       ELSE IF Failing(keys) # <<>> \/ Failing(values) # <<>>
       THEN Res(RetErr(KeyValueError(target_cls,
                Prefixed("key", target_args[1], keys) \o Prefixed("value", target_args[2], values), obj)),
                obj, c.reg, c.log)
       ELSE Res(RetNone, obj, c.reg, c.log)

\* handler._type_check of the handler of that name of the Python unit
Handler__type_check(handler, target_cls, obj, reg) ==
    CASE handler = "Rterable" -> Rterable__type_check(target_cls, obj, reg)
      [] handler = "Ret" -> Ret__type_check(target_cls, obj, reg)
      [] handler = "Ruple" -> Ruple__type_check(target_cls, obj, reg)
      [] handler = "Rnion" -> Rnion__type_check(target_cls, obj, reg)
      [] handler = "Rict" -> Rict__type_check(target_cls, obj, reg)
      [] OTHER -> Done(BuiltIn__type_check(handler, target_cls, obj), obj, reg)

\* Simple.type_check of the Python unit
Python_type_check(target_cls, obj, reg) ==
    IF ~Python_contains(target_cls, reg) THEN Done(RetErr(UnRepresentedTypeError(target_cls, obj)), obj, reg)
    ELSE Handler__type_check(Python_get(target_cls, reg), target_cls, obj, reg)

\* Rone._contains applied to a value, as Rone._type_check applies it: the
\* value is None, or it is the class NoneType
Rone__contains(obj) == obj.k = "None" \/ (obj.k = "type" /\ obj.s = "NoneType")
\* Simple.type_check of the Value unit, with Rone._type_check and
\* Nny._type_check
Value_type_check(target_cls, obj, reg) ==
    IF ~Value_contains(target_cls) THEN Done(RetErr(UnRepresentedTypeError(target_cls, obj)), obj, reg)
    ELSE IF Value_get(target_cls) = "Rone" /\ ~Rone__contains(obj)
    THEN Done(RetErr(WrongTypeError(Cls("NoneType"), obj)), obj, reg)
    ELSE Done(RetNone, obj, reg)

\* Identity._type_check
Identity__type_check(target_cls, obj, reg) ==
    LET c == target_cls.args[1]
        r == orchestrator_type_check(c, obj, reg)
    IN IF c.o = "Any" THEN Done(RetNone, obj, reg)
       ELSE IF c.o = "None" THEN Done(Raise("TypeError"), obj, reg)
       ELSE IF ~IsGenericAlias(c) /\ isinstance(obj, c.o) THEN Done(RetNone, obj, reg)
       ELSE r

\* the _type_check of the Dependent handler of that name
RECURSIVE Dependent__type_check(_, _, _, _)
\* Simple.type_check of the ParameterValue unit
ParameterValue_type_check(target_cls, obj, reg) ==
    LET Checked(ru) ==
            IF ru = "" THEN Done(RetErr(UnRepresentedTypeError(target_cls, obj)), obj, reg)
            ELSE IF ru = "Identity" THEN Identity__type_check(target_cls, obj, reg)
            ELSE Dependent__type_check(ru, target_cls, obj, reg)
    IN Checked(ParameterValue_get(target_cls, reg))

\* the keys of a mapping, whatever their type
RawKeys(obj) == [i \in 1..Len(obj.items) |-> obj.items[i].items[1]]
\* ConstructorValue.get_kv of the parameters against obj: the parameters
\* without a default that are no key of obj, with their annotations
parameter_kv(subclass, obj) ==
    {Detail("-", parameters(subclass)[i].name, parameters(subclass)[i].annotation) :
        i \in {j \in 1..Len(parameters(subclass)) : ~parameters(subclass)[j].has_default /\ ~HasKey(obj, parameters(subclass)[j].name)}}
\* ConstructorValue.get_kv of obj against the parameters: the keys of obj,
\* but "type", that are no parameter, with the types of their values
obj_kv(subclass, obj) ==
    {Detail("+", ReprOf(RawKeys(obj)[i]), Cls(TypeOf(GetItem(obj, ReprOf(RawKeys(obj)[i]))))) :
        i \in {j \in 1..Len(obj.items) : RawKeys(obj)[j] # StrV("type")
                                            /\ ~(RawKeys(obj)[j].k = "str" /\ HasParam(subclass, RawKeys(obj)[j].s))}}
\* ConstructorValue.parameter_consistency: a parameter without a default
\* is missing from obj, or obj has a key that is no parameter
parameter_consistency(subclass, obj) ==
    IF parameter_kv(subclass, obj) # {} \/ obj_kv(subclass, obj) # {}
    THEN RetErr(KeyValueDiffError(Cls(subclass), parameter_kv(subclass, obj), obj_kv(subclass, obj), obj))
    ELSE RetNone

\* the keys ConstructorValue.dict_type_check visits: those of obj but "type"
CheckedKeys(obj) == SelectSeq(Keys(obj), LAMBDA k : k # "type")
\* `target_cls.parameter_order or obj.keys()`, of which dict_type_check
\* visits the keys of obj but "type"
ScanOrder(subclass, obj) ==
    IF parameter_order(subclass) = <<>> THEN CheckedKeys(obj)
    ELSE SelectSeq(parameter_order(subclass), LAMBDA k : HasKey(obj, k) /\ k # "type")

\* obj.pop("type", None): obj without the key
Popped(obj) == [obj EXCEPT !.items = SelectSeq(obj.items, LAMBDA kv : kv.items[1] # StrV("type"))]

\* ConstructorValue.dict_type_check
dict_type_check(target_cls, obj, reg) ==
    LET Counted(subclass, ks, c, failing) ==
            IF Raised(c.exc) THEN Res(c.exc, obj, c.reg, c.log)
            ELSE IF failing # <<>>
            THEN Res(RetErr(KeyValueError(Cls(subclass), [j \in 1..Len(failing) |-> KV(KeyS(ks[failing[j]]), c.outs[failing[j]].err[1])], obj)),
                     obj, c.reg, c.log)
            ELSE Res(RetNone, obj, c.reg, c.log)
        Checked(subclass, ks, c) == Counted(subclass, ks, c, Failing(c.outs))
        Scanned(subclass, ks) ==
            Checked(subclass, ks,
                    TypeCheckAll([j \in 1..Len(ks) |-> Parameter(ParamOf(subclass, ks[j]).annotation, subclass, obj, ks[j])],
                                 [j \in 1..Len(ks) |-> GetItem(obj, ks[j])], reg))
    IN Scanned(target_cls.args[1].o, ScanOrder(target_cls.args[1].o, obj))

\* ConstructorValue.check_parameter_order: a declared order names every
\* parameter and nothing else
check_parameter_order(subclass) ==
    LET po_set == {parameter_order(subclass)[i] : i \in 1..Len(parameter_order(subclass))}
        pk == {parameters(subclass)[i].name : i \in 1..Len(parameters(subclass))}
    IN IF parameter_order(subclass) = <<>> THEN RetNone
       ELSE IF po_set # pk
       THEN RetErr([TypeCheckError("ParameterOrderError", Constructor(Cls(subclass)), NoneV)
                       EXCEPT !.msg = {Detail("-", k, NoType) : k \in pk \ po_set} \cup {Detail("+", k, NoType) : k \in po_set \ pk}])
       ELSE RetNone

\* BaseConstructorValue._type_check of a Constructor that parameters were
\* popped from: the declared order and obj are held against those left
popped_type_check(target_cls, obj, reg) ==
    LET subclass == target_cls.args[1].o
        Consistent(missing, additional) ==
            IF missing # {} \/ additional # {}
            THEN Done(RetErr(KeyValueDiffError(Cls(subclass), missing, additional, obj)), obj, reg)
            ELSE dict_type_check(target_cls, obj, reg)
        Ordered(parameter_order_, po_set, pk) ==
            IF parameter_order_ # <<>> /\ po_set # pk
            THEN Done(RetErr([TypeCheckError("ParameterOrderError", target_cls, NoneV)
                             EXCEPT !.msg = {Detail("-", k, NoType) : k \in pk \ po_set} \cup {Detail("+", k, NoType) : k \in po_set \ pk}]), obj, reg)
            ELSE Consistent({d \in parameter_kv(subclass, obj) : d.key \notin popped(target_cls)},
                            obj_kv(subclass, obj)
                                \cup {Detail("+", k, Cls(TypeOf(GetItem(obj, k)))) : k \in {n \in popped(target_cls) : HasKey(obj, n)}})
        Declared_(parameter_order_, parameters_) ==
            Ordered(parameter_order_, {parameter_order_[i] : i \in 1..Len(parameter_order_)},
                    {parameters_[i].name : i \in 1..Len(parameters_)} \ popped(target_cls))
    IN Declared_(parameter_order(subclass), parameters(subclass))

\* ConstructorValue.type_check with BaseConstructorValue._type_check
ConstructorValue_type_check(target_cls, obj, reg) ==
    IF ~ConstructorValue_contains(target_cls) THEN Done(RetErr(WrongTypeError(Cls("Constructor"), NoneV)), obj, reg)
    ELSE IF ~IsMapping(obj) THEN Done(Raise("AttributeError"), obj, reg)
    ELSE IF popped(target_cls) # {} THEN popped_type_check(target_cls, obj, reg)
    ELSE IF ~IsNone(check_parameter_order(target_cls.args[1].o)) THEN Done(check_parameter_order(target_cls.args[1].o), obj, reg)
    ELSE IF ~IsNone(parameter_consistency(target_cls.args[1].o, obj))
    THEN Done(parameter_consistency(target_cls.args[1].o, obj), obj, reg)
    ELSE dict_type_check(target_cls, obj, reg)

\* Constructor.__post_init__: by_name of a registered class resolves its
\* own name among its constructible descendants, reading their entries
Constructor___post_init__(subclass, reg) ==
    IF subclass \in _subclass_registry THEN reg \cup Exploded(subclass) ELSE reg

\* DataClass.type_check
DataClass_type_check(target_cls, obj, reg) ==
    IF ~DataClass_contains(target_cls) THEN Done(RetErr(UnRepresentedTypeError(target_cls, obj)), obj, reg)
    ELSE IF obj.k # "Params" THEN Done(RetErr(ParamError(target_cls, obj)), obj, reg)
    ELSE orchestrator_type_check(Constructor(target_cls), obj, Constructor___post_init__(target_cls.o, reg))

\* Anum.type_check
Anum_type_check(target_cls, obj, reg) ==
    IF ~Anum_contains(target_cls) THEN Done(RetErr(UnRepresentedTypeError(target_cls, obj)), obj, reg)
    ELSE IF ~isinstance(obj, "str") THEN Done(RetErr(TypeCheckError("AnumWrongTypeError", target_cls, obj)), obj, reg)
    ELSE IF obj.s \notin AnumRegistry(target_cls.o) THEN Done(RetErr(TypeCheckError("AnumMemberError", target_cls, obj)), obj, reg)
    ELSE Done(RetNone, obj, reg)

\* Complex.general_check; is_from_obj hands an instance of cls back as it is
general_check(cls, obj, reg, is_from_obj) ==
    IF ~Complex_contains(cls, reg) THEN Done(RetErr(UnRepresentedTypeError(cls, obj)), obj, reg)
    ELSE IF is_from_obj /\ isinstance(obj, cls.o) THEN Done(Ret(obj), obj, reg)
    ELSE IF obj.k # "Params" THEN Done(RetErr(ParamError(cls, obj)), obj, reg)
    ELSE IF ~IsHashableValue(Params_get(obj, "type")) THEN Done(Raise("TypeError"), obj, reg \cup Exploded(cls.o))
    ELSE IF ~(Params_get(obj, "type").k = "str" /\ Params_get(obj, "type").s \in ChildNames(cls.o))
    THEN Done(RetErr(ComplexTypeMismatchError(cls, get_instantiate_children(cls.o), obj)), obj, reg \cup Exploded(cls.o))
    ELSE Done(RetNone, obj, reg \cup Exploded(cls.o))

\* Complex.type_check, with Complex._type_check of the class resolved
Complex_type_check(target_cls, obj, reg) ==
    LET general_check_output == cls_general_check(target_cls, obj, reg, FALSE)
        ru == resolve_class_name(target_cls.o, Params_get(obj, "type").s)
    IN IF ~IsNone(general_check_output.out) THEN general_check_output
       ELSE orchestrator_type_check(Constructor(Cls(ru)), obj, Constructor___post_init__(ru, general_check_output.reg))

(***************************************************************************)
(* The dependent parameters (adorn/unit/parameter_value.py): a Parameter   *)
(* whose type is DependentTypeCheck[wrapped, Literal[literal_dict]],       *)
(* DependentFromObj[wrapped, Literal[literal_dict]] or DependentUnion[     *)
(* dependent, fallback]; literal_dict maps a parameter of the wrapped      *)
(* class to a dotted path into the local state.                            *)
(***************************************************************************)
\* v.split("."), for the paths of the model
split(v) ==
    CASE v = "a.b" -> <<"a", "b">>
      [] v = "a.weight" -> <<"a", "weight">>
      [] v = "a.b.c" -> <<"a", "b", "c">>
      [] OTHER -> <<v>>
\* `key in s` of a str s, for the strings of the model
IsSubstring(key, s) == key = s \/ <<key, s>> \in {<<"b", "xbx">>, <<"a", "a.b">>, <<"b", "a.b">>}

\* one step of the walk of Dependent.get_args: `key not in local_state`
\* and `local_state[key]`, or hasattr and getattr past the first segment of
\* a from-obj-time walk; the state found, "missing", or the TypeError of a
\* state that is no container or takes no str index
Lookup(local_state, key, by_attribute) ==
    LET found(v) == [st |-> "found", val |-> v]
        missing == [st |-> "missing", val |-> NoneV]
        raise == [st |-> "raise", val |-> NoneV]
    IN IF by_attribute
       THEN IF local_state.k = "obj" /\ HasKey(local_state, key) THEN found(RawGet(local_state, key)) ELSE missing
       ELSE CASE IsMapping(local_state) -> IF HasKey(local_state, key) THEN found(GetItem(local_state, key)) ELSE missing
              [] local_state.k \in {"list", "tuple", "set"} ->
                    IF \E i \in 1..Len(local_state.items) : local_state.items[i] = StrV(key) THEN raise ELSE missing
              [] local_state.k = "str" -> IF IsSubstring(key, local_state.s) THEN raise ELSE missing
              [] OTHER -> raise

\* the while loop of Dependent.get_args over keys[i..upper_bound]
RECURSIVE Walk(_, _, _, _, _)
Walk(local_state, keys, i, upper_bound, dependent_from_obj) ==
    IF i > upper_bound THEN [st |-> "found", val |-> local_state]
    ELSE LET l == Lookup(local_state, keys[i], i # 1 /\ dependent_from_obj)
         IN IF l.st = "found" THEN Walk(l.val, keys, i + 1, upper_bound, dependent_from_obj) ELSE l

\* Dependent.get_args over the first n items of literal_dict: acc, or the
\* TypeError that ended the loop; a max_depth of 0 stands for None
RECURSIVE get_args_upto(_, _, _, _, _)
get_args_upto(target_cls, literal_dict, dependent_from_obj, max_depth, n) ==
    IF n = 0 THEN [exc |-> "", acc |-> <<>>]
    ELSE LET init == get_args_upto(target_cls, literal_dict, dependent_from_obj, max_depth, n - 1)
             keys == split(literal_dict.items[n].items[2].s)
             upper_bound == IF max_depth # 0 /\ dependent_from_obj THEN max_depth ELSE Len(keys)
             w == Walk(target_cls.ls, keys, 1, upper_bound, dependent_from_obj)
         IN IF init.exc # "" THEN init
            ELSE IF w.st = "raise" THEN [exc |-> "TypeError", acc |-> init.acc]
            ELSE IF w.st = "found" THEN [exc |-> "", acc |-> Append(init.acc, Pair(literal_dict.items[n].items[1], w.val))]
            ELSE init
\* Dependent.get_args
get_args(target_cls, literal_dict, dependent_from_obj, max_depth) ==
    get_args_upto(target_cls, literal_dict, dependent_from_obj, max_depth, Len(literal_dict.items))

\* the errors of a malformed dependent type; MalformedLiteralError keeps
\* the error of the literal as its child
DependencyError(e, target_cls) == TypeCheckError(e, target_cls, NoneV)
MalformedLiteralError(target_cls, child) ==
    [e |-> "MalformedLiteralError", tgt |-> target_cls, obj |-> NoneV, kv |-> <<KV(KeyS("child"), child)>>, exc |-> "", msg |-> {}]
\* ExtraLiteralError and TooDeepLiteralError: the message lists the keys, or the paths
LiteralError(e, target_cls, names) ==
    [e |-> e, tgt |-> target_cls, obj |-> NoneV, kv |-> <<>>, exc |-> "", msg |-> {Detail("+", k, NoType) : k \in names}]
\* MissingDependencyError: missing_dependency, a dict, is kept as obj
MissingDependencyError(target_cls, missing_dependency) ==
    TypeCheckError("MissingDependencyError", target_cls, DictV(missing_dependency))

\* target_cls.args[1].__args__[0] of a well formed dependent type
literal_dict_of(target_cls) == target_cls.args[1].args[2].ls.items[1]

\* Dependent.check_args
check_args(target_cls, obj, reg) ==
    LET args == target_cls.args[1].args
        literal_arg == args[2].ls.items
        Checked(literal_arg_check) ==
            IF Raised(literal_arg_check.out) THEN Res(literal_arg_check.out, obj, literal_arg_check.reg, literal_arg_check.log)
            ELSE IF ~IsNone(literal_arg_check.out)
            THEN Res(RetErr(MalformedLiteralError(target_cls, literal_arg_check.out.err[1])), obj, literal_arg_check.reg, literal_arg_check.log)
            ELSE Res(RetNone, obj, literal_arg_check.reg, literal_arg_check.log)
    IN IF Len(args) # 2 THEN Done(RetErr(DependencyError("MalformedDependencyError", target_cls)), obj, reg)
       ELSE IF args[2].o # "Literal" THEN Done(RetErr(DependencyError("MissingLiteralError", target_cls)), obj, reg)
       ELSE IF Len(literal_arg) # 1 THEN Done(RetErr(DependencyError("UnaryLiteralError", target_cls)), obj, reg)
       ELSE Checked(orchestrator_type_check(Generic("Dict", <<Cls("str"), Cls("str")>>), literal_arg[1], reg))

\* Dependent.get_constructor: the Constructor of the class obj names
get_constructor(target_cls, obj) ==
    Constructor(Cls(resolve_class_name(target_cls.args[1].args[1].o, GetItem(obj, "type").s)))

\* Dependent.check_literal_dict_keys
check_literal_dict_keys(target_cls, literal_dict, args) ==
    LET missing == SelectSeq(literal_dict.items, LAMBDA kv : ~HasKey(DictV(args), kv.items[1].s))
    IN IF missing # <<>> THEN RetErr(MissingDependencyError(target_cls, missing)) ELSE RetNone

\* Dependent.check_literal_dict
check_literal_dict(target_cls, obj, reg, dependent_from_obj) ==
    LET constructor == get_constructor(target_cls, obj)
        literal_dict == literal_dict_of(target_cls)
        Keyed(args) == IF args.exc # "" THEN Raise(args.exc) ELSE check_literal_dict_keys(target_cls, literal_dict, args.acc)
        Checked(additional_keys, too_deep) ==
            IF additional_keys # {} THEN RetErr(LiteralError("ExtraLiteralError", target_cls, additional_keys))
            ELSE IF too_deep # {} THEN RetErr(LiteralError("TooDeepLiteralError", target_cls, too_deep))
            ELSE Keyed(get_args(target_cls, literal_dict, dependent_from_obj, IF dependent_from_obj THEN 1 ELSE 0))
    IN Done(Checked({k \in {Keys(literal_dict)[i] : i \in 1..Len(literal_dict.items)} : ~HasParam(constructor.args[1].o, k)},
                    {literal_dict.items[i].items[2].s : i \in {j \in 1..Len(literal_dict.items) : Len(split(literal_dict.items[j].items[2].s)) > 2}}),
            obj, Constructor___post_init__(constructor.args[1].o, reg))

\* Dependent.perfunctory_type_check
perfunctory_type_check(target_cls, obj, reg, dependent_from_obj) ==
    LET wrapped_cls == target_cls.args[1].args[1]
        General(check_arg_output, cls_unit) ==
            IF cls_unit = "" THEN Done(RaiseErr(TypeCheckError("TypeCheckError", wrapped_cls, NoneV)), obj, check_arg_output.reg)
            ELSE IF cls_unit # "Complex" THEN Done(Raise("AttributeError"), obj, check_arg_output.reg)
            ELSE cls_general_check(wrapped_cls, obj, check_arg_output.reg, FALSE)
        Last(check_arg_output, check_literal_dict_output) ==
            Res(check_literal_dict_output.out, obj, check_literal_dict_output.reg, check_arg_output.log)
        AfterGeneral(check_arg_output, wrapped_cls_general_check) ==
            IF ~IsNone(wrapped_cls_general_check.out)
            THEN Res(wrapped_cls_general_check.out, obj, wrapped_cls_general_check.reg, check_arg_output.log)
            ELSE Last(check_arg_output, check_literal_dict(target_cls, obj, wrapped_cls_general_check.reg, dependent_from_obj))
        AfterArgs(check_arg_output) ==
            IF ~IsNone(check_arg_output.out) THEN check_arg_output
            ELSE AfterGeneral(check_arg_output, General(check_arg_output, orchestrator_get(wrapped_cls, check_arg_output.reg)))
    IN AfterArgs(check_args(target_cls, obj, reg))

\* _replace_none of adorn/params.py: the str "None" becomes None, in the
\* values of a dict in place and in a copy of a list
RECURSIVE _replace_none(_)
_replace_none(params) ==
    CASE params = StrV("None") -> NoneV
      [] params.k = "dict" ->
            [params EXCEPT !.items = [i \in 1..Len(params.items) |-> Pair(params.items[i].items[1], _replace_none(params.items[i].items[2]))]]
      [] params.k = "list" -> ListV([i \in 1..Len(params.items) |-> _replace_none(params.items[i])])
      [] OTHER -> params
\* Params(params)
Params(params) == ParamsV(_replace_none(params).items)

\* the loop of DependentTypeCheck._type_check over the first n items of
\* args: a shallow check of each value against the annotation of its
\* parameter
RECURSIVE bad_args_upto(_, _, _, _)
bad_args_upto(subclass, args, reg, n) ==
    IF n = 0 THEN [outs |-> <<>>, reg |-> reg, log |-> <<>>, exc |-> NoOut]
    ELSE LET k == Keys(args)[n]
             v == GetItem(args, k)
             sub == ParamOf(subclass, k).annotation
             Checked(init, unit) ==
                 IF unit = "" THEN Done(RaiseErr(TypeCheckError("TypeCheckError", sub, NoneV)), v, init.reg)
                 ELSE IF ~IsGenericAlias(sub) /\ isinstance(v, sub.o) THEN Done(RetNone, v, init.reg)
                 ELSE IF unit = "Complex" THEN cls_general_check(sub, v, init.reg, FALSE)
                 ELSE orchestrator_type_check(sub, v, init.reg)
             With(init, arg_type_check) ==
                 [outs |-> IF Raised(arg_type_check.out) THEN init.outs ELSE Append(init.outs, arg_type_check.out),
                  reg |-> arg_type_check.reg,
                  log |-> init.log \o arg_type_check.log,
                  exc |-> IF Raised(arg_type_check.out) THEN arg_type_check.out ELSE NoOut]
             Next_(init) == IF Raised(init.exc) THEN init ELSE With(init, Checked(init, orchestrator_get(sub, init.reg)))
         IN Next_(bad_args_upto(subclass, args, reg, n - 1))

\* the keys of literal_dict that are no key of obj: what the dependent
\* validations pop from constructor.parameters
UnsetKeys(literal_dict, obj) == SelectSeq(Keys(literal_dict), LAMBDA k : ~HasKey(obj, k))

\* DependentTypeCheck._type_check
DependentTypeCheck__type_check(target_cls, obj, reg) ==
    LET literal_dict == literal_dict_of(target_cls)
        constructor == get_constructor(target_cls, obj)
        Last(lg, r) == Res(r.out, r.obj, r.reg, lg \o r.log)
        Shallow(lg, args, c, failing) ==
            IF Raised(c.exc) THEN Res(c.exc, obj, c.reg, lg \o c.log)
            ELSE IF failing # <<>>
            THEN Res(RetErr(KeyValueError(target_cls, [j \in 1..Len(failing) |-> KV(KeyS(Keys(args)[failing[j]]), c.outs[failing[j]].err[1])], obj)),
                     obj, c.reg, lg \o c.log)
            ELSE Last(lg \o c.log, orchestrator_type_check(Popping(constructor, UnsetKeys(literal_dict, obj)), obj, c.reg))
        Counted(lg, args, c) == Shallow(lg, args, c, Failing(c.outs))
        WithArgs(perfunctory_type_check_output, args) ==
            Counted(perfunctory_type_check_output.log, args,
                    bad_args_upto(constructor.args[1].o, args, perfunctory_type_check_output.reg, Len(args.items)))
        Perfunctory(perfunctory_type_check_output) ==
            IF ~IsNone(perfunctory_type_check_output.out) THEN perfunctory_type_check_output
            ELSE WithArgs(perfunctory_type_check_output, Params(DictV(get_args(target_cls, literal_dict, FALSE, 0).acc)))
    IN Perfunctory(cls_perfunctory_type_check(target_cls, obj, reg, FALSE))

\* DependentFromObj._type_check: the literal is checked against the first
\* segment of each path alone
DependentFromObj__type_check(target_cls, obj, reg) ==
    LET literal_dict == literal_dict_of(target_cls)
        constructor == get_constructor(target_cls, obj)
        Last(lg, r) == Res(r.out, r.obj, r.reg, lg \o r.log)
        Perfunctory(perfunctory_type_check_output) ==
            IF ~IsNone(perfunctory_type_check_output.out) THEN perfunctory_type_check_output
            ELSE Last(perfunctory_type_check_output.log,
                      orchestrator_type_check(Popping(constructor, UnsetKeys(literal_dict, obj)), obj, perfunctory_type_check_output.reg))
    IN Perfunctory(cls_perfunctory_type_check(target_cls, obj, reg, TRUE))

\* the state at the end of a path after Params(args) of
\* DependentTypeCheck._type_check: _replace_none rewrites the dicts of args,
\* which are those of the local state
RECURSIVE ReplaceAt(_, _, _)
ReplaceAt(state, keys, i) ==
    IF i > Len(keys) THEN (IF state.k = "dict" THEN _replace_none(state) ELSE state)
    ELSE IF IsMapping(state) /\ HasKey(state, keys[i])
    THEN [state EXCEPT !.items = [j \in 1..Len(state.items) |->
              IF state.items[j].items[1] = StrV(keys[i])
              THEN Pair(state.items[j].items[1], ReplaceAt(state.items[j].items[2], keys, i + 1))
              ELSE state.items[j]]]
    ELSE state
RECURSIVE ReplacedUpTo(_, _, _)
ReplacedUpTo(local_state, literal_dict, n) ==
    IF n = 0 THEN local_state
    ELSE ReplaceAt(ReplacedUpTo(local_state, literal_dict, n - 1), split(literal_dict.items[n].items[2].s), 1)

\* target_cls.local_state once the _type_check of the handler of target_cls
\* has returned: the candidates of a union hold the local state of the
\* union, one object
local_state_after(target_cls, obj, reg) ==
    LET first == get_parameter_subtype(target_cls, target_cls.args[1].args[1])
        Second(ls) == get_parameter_subtype([target_cls EXCEPT !.ls = ls], target_cls.args[1].args[2])
        Candidates(ls, type_check_output) ==
            IF IsNone(type_check_output.out) \/ Raised(type_check_output.out) THEN ls
            ELSE cls_local_state_after(Second(ls), obj, type_check_output.reg)
        Of(handler) ==
            IF handler = "DependentTypeCheck"
            THEN IF IsNone(cls_perfunctory_type_check(target_cls, obj, reg, FALSE).out)
                 THEN ReplacedUpTo(target_cls.ls, literal_dict_of(target_cls), Len(literal_dict_of(target_cls).items))
                 ELSE target_cls.ls
            ELSE IF handler = "DependentUnion"
            THEN Candidates(cls_local_state_after(first, obj, reg), orchestrator_type_check(first, obj, reg))
            ELSE target_cls.ls
    IN IF target_cls.o # "Parameter" THEN target_cls.ls ELSE Of(ParameterValue_get(target_cls, reg))

\* DependentUnion.get_parameter over the candidates from the i-th on: the
\* index of the first that validates, or 0 with the errors of all
RECURSIVE get_parameter_from(_, _, _, _)
get_parameter_from(target_cls, obj, reg, i) ==
    IF i > Len(target_cls.args[1].args) THEN [output |-> 0, key_values |-> <<>>, reg |-> reg, log |-> <<>>, exc |-> NoOut]
    ELSE LET nu_parameter == get_parameter_subtype(target_cls, target_cls.args[1].args[i])
             Failed(type_check_output, rest) ==
                 [rest EXCEPT !.key_values = <<KV(KeyT(nu_parameter), type_check_output.out.err[1])>> \o @,
                              !.log = type_check_output.log \o @]
             Tried_(type_check_output) ==
                 IF Raised(type_check_output.out)
                 THEN [output |-> 0, key_values |-> <<>>, reg |-> type_check_output.reg, log |-> type_check_output.log, exc |-> type_check_output.out]
                 ELSE IF IsNone(type_check_output.out)
                 THEN [output |-> i, key_values |-> <<>>, reg |-> type_check_output.reg, log |-> type_check_output.log, exc |-> NoOut]
                 ELSE Failed(type_check_output,
                             get_parameter_from([target_cls EXCEPT !.ls = cls_local_state_after(nu_parameter, obj, reg)],
                                                obj, type_check_output.reg, i + 1))
         IN Tried_(orchestrator_type_check(nu_parameter, obj, reg))
\* DependentUnion.get_parameter
get_parameter(target_cls, obj, reg) == get_parameter_from(target_cls, obj, reg, 1)

\* DependentUnion._type_check
DependentUnion__type_check(target_cls, obj, reg) ==
    LET Chosen(output) ==
            IF Raised(output.exc) THEN Res(output.exc, obj, output.reg, output.log)
            ELSE IF output.output = 0 THEN Res(RetErr(KeyValueError(target_cls, output.key_values, obj)), obj, output.reg, output.log)
            ELSE Res(RetNone, obj, output.reg, output.log)
    IN Chosen(cls_get_parameter(target_cls, obj, reg))

Dependent__type_check(handler, target_cls, obj, reg) ==
    CASE handler = "DependentTypeCheck" -> DependentTypeCheck__type_check(target_cls, obj, reg)
      [] handler = "DependentFromObj" -> DependentFromObj__type_check(target_cls, obj, reg)
      [] OTHER -> DependentUnion__type_check(target_cls, obj, reg)

\* unit.type_check(target_cls, orchestrator, obj) of the unit of that name
Unit_type_check(unit, target_cls, obj, reg) ==
    CASE unit = "Value" -> Value_type_check(target_cls, obj, reg)
      [] unit = "ParameterValue" -> ParameterValue_type_check(target_cls, obj, reg)
      [] unit = "ConstructorValue" -> ConstructorValue_type_check(target_cls, obj, reg)
      [] unit = "Python" -> Python_type_check(target_cls, obj, reg)
      [] unit = "Anum" -> Anum_type_check(target_cls, obj, reg)
      [] unit = "DataClass" -> DataClass_type_check(target_cls, obj, reg)
      [] unit = "Complex" -> Complex_type_check(target_cls, obj, reg)
      [] OTHER -> Done(NoOut, obj, reg)

(***************************************************************************)
(* Construction: the from_obj of each unit.  The built-in constructors     *)
(* convert: int("1") is 1, int(True) is 1, str(3) is "3".                  *)
(***************************************************************************)
\* int(obj)
int(obj) ==
    CASE obj.k \in {"int", "bool"} -> Ret(IntV(obj.n))
      [] obj.k = "float" -> Ret(IntV(obj.n \div 10))
      [] obj.k = "str" -> IF IsIntStr(obj.s) THEN Ret(IntV(IntOfStr(obj.s))) ELSE Raise("ValueError")
      [] obj.k = "enum" /\ TypeOf(obj) = "Level" -> Ret(IntV(IF obj.s = "High" THEN 1 ELSE 0))
      [] OTHER -> Raise("TypeError")
\* float(obj)
float(obj) ==
    CASE obj.k \in {"int", "bool"} -> Ret(FloatV(10 * obj.n))
      [] obj.k = "float" -> Ret(obj)
      [] obj.k = "str" -> IF IsFloatStr(obj.s) THEN Ret(FloatV(FloatOfStr(obj.s))) ELSE Raise("ValueError")
      [] obj.k = "enum" /\ TypeOf(obj) = "Level" -> Ret(FloatV(IF obj.s = "High" THEN 10 ELSE 0))
      [] OTHER -> Raise("TypeError")
\* str(obj)
str(obj) == Ret(StrV(ReprOf(obj)))
\* bool(obj): the truth value
bool(obj) ==
    CASE obj.k \in {"int", "bool", "float"} -> Ret(BoolV(obj.n # 0))
      [] obj.k = "str" -> Ret(BoolV(obj.s # ""))
      [] obj.k \in {"list", "set", "tuple", "dict", "Params"} -> Ret(BoolV(obj.items # <<>>))
      [] obj.k = "None" -> Ret(BoolV(FALSE))
      [] obj.k = "enum" -> Ret(BoolV(obj.s # "Low"))
      [] OTHER -> Ret(BoolV(TRUE))

\* BuiltIn._from_obj: cls.base_type(obj)
BuiltIn__from_obj(handler, target_cls, obj) ==
    CASE handler = "Int" -> int(obj)
      [] handler = "Str" -> str(obj)
      [] handler = "Bool" -> bool(obj)
      [] handler = "Float" -> float(obj)
      [] OTHER -> Raise("TypeError")

\* what the calls left of a nested value, seen through the raw container:
\* a dict handed out wrapped as Params is the same dict
RECURSIVE WriteBack(_, _)
WriteBack(raw, new) ==
    CASE raw.k = "dict" /\ new.k = "Params" -> DictV(new.items)
      [] raw.k = "list" /\ new.k = "list" /\ Len(raw.items) = Len(new.items) ->
            ListV([i \in 1..Len(raw.items) |-> WriteBack(raw.items[i], new.items[i])])
      [] OTHER -> new

\* obj with its elements as the loop over them left them
WithElements(obj, objs) ==
    IF obj.k \in {"list", "set", "tuple"} THEN [obj EXCEPT !.items = objs] ELSE obj

\* Rterable._from_obj
Rterable__from_obj(target_cls, obj, reg) ==
    LET c == FromObjAll(Repeat(target_cls.args[1], Len(Iter(obj))), Iter(obj), reg)
    IN IF ~IsIterable(obj) THEN Done(Raise("TypeError"), obj, reg)
       ELSE IF Raised(c.exc) THEN Res(c.exc, WithElements(obj, c.objs), c.reg, c.log)
       ELSE Res(Ret(ListV(c.vals)), WithElements(obj, c.objs), c.reg, c.log)

\* the prefix of vals up to its first element that does not hash
Hashed(vals) ==
    IF \E i \in 1..Len(vals) : ~IsHashableValue(vals[i])
    THEN SubSeq(vals, 1, (CHOOSE i \in 1..Len(vals) : ~IsHashableValue(vals[i]) /\ \A j \in 1..(i - 1) : IsHashableValue(vals[j])) - 1)
    ELSE vals

\* Ret._from_obj: a set comprehension, which hashes each instance as it is
\* made
Ret__from_obj(target_cls, obj, reg) ==
    LET c == FromObjAll(Repeat(target_cls.args[1], Len(Iter(obj))), Iter(obj), reg)
        n == Len(Hashed(c.vals))
        upto == FromObjUpTo(Repeat(target_cls.args[1], Len(Iter(obj))), Iter(obj), reg, n + 1)
    IN IF ~IsIterable(obj) THEN Done(Raise("TypeError"), obj, reg)
       ELSE IF n < Len(c.vals) THEN Res(Raise("TypeError"), WithElements(obj, upto.objs), upto.reg, upto.log)
       ELSE IF Raised(c.exc) THEN Res(c.exc, WithElements(obj, c.objs), c.reg, c.log)
       ELSE Res(Ret(SetV(Dedup(c.vals))), WithElements(obj, c.objs), c.reg, c.log)

\* Ruple._from_obj: zip stops at the shorter of the arguments and the value
Ruple__from_obj(target_cls, obj, reg) ==
    LET c == FromObjAll(target_cls.args, Iter(obj), reg)
    IN IF ~IsIterable(obj) THEN Done(Raise("TypeError"), obj, reg)
       ELSE IF Raised(c.exc) THEN Res(c.exc, WithElements(obj, c.objs), c.reg, c.log)
       ELSE Res(Ret(TupleV(c.vals)), WithElements(obj, c.objs), c.reg, c.log)

\* Rnion._from_obj: the members are tried in order on a copy of obj, and
\* the first that validates constructs
RECURSIVE Rnion__from_obj_from(_, _, _, _, _)
Rnion__from_obj_from(target_cls, obj, reg, n, failed_args) ==
    IF n > Len(target_cls.args)
    THEN Done(RaiseErr(KeyValueError(target_cls, failed_args, obj)), obj, reg)
    ELSE LET arg == target_cls.args[n]
             output == orchestrator_type_check(arg, obj, reg)
             made == orchestrator_from_obj(arg, obj, output.reg)
             rest == Rnion__from_obj_from(target_cls, obj, output.reg, n + 1, Append(failed_args, KV(KeyT(arg), output.out.err[1])))
         IN IF Raised(output.out) THEN Res(output.out, obj, output.reg, output.log)
            ELSE IF IsNone(output.out) THEN Res(made.out, made.obj, made.reg, output.log \o made.log)
            ELSE Res(rest.out, rest.obj, rest.reg, output.log \o rest.log)
\* a faulty Rnion._from_obj: the members are tried from the last to the first
Rnion__from_obj_last(target_cls, obj, reg) ==
    Rnion__from_obj_from([target_cls EXCEPT !.args = [i \in 1..Len(target_cls.args) |-> target_cls.args[Len(target_cls.args) + 1 - i]]], obj, reg, 1, <<>>)
Rnion__from_obj(target_cls, obj, reg) == Rnion__from_obj_from(target_cls, obj, reg, 1, <<>>)

\* the dict that inserting the (key, value) pairs of vals in order builds:
\* a key equal to an earlier one keeps that one and takes the new value
RECURSIVE BuildDict(_)
BuildDict(vals) ==
    IF vals = <<>> THEN <<>>
    ELSE LET init == BuildDict(SubSeq(vals, 1, Len(vals) - 2))
             key == vals[Len(vals) - 1]
             value == vals[Len(vals)]
         IN IF \E i \in 1..Len(init) : PyEq(init[i].items[1], key)
            THEN [i \in 1..Len(init) |-> IF PyEq(init[i].items[1], key) THEN Pair(init[i].items[1], value) ELSE init[i]]
            ELSE Append(init, Pair(key, value))

\* Rict._from_obj: a dict comprehension, which makes a key, then its value,
\* then hashes the key
Rict__from_obj(target_cls, obj, reg) ==
    LET types == [j \in 1..(2 * Len(obj.items)) |-> target_cls.args[2 - (j % 2)]]
        c == FromObjAll(types, Items(obj), reg)
        pairs == Len(c.vals) \div 2
        unhashable == {i \in 1..pairs : ~IsHashableValue(c.vals[2 * i - 1])}
        first == CHOOSE i \in unhashable : \A j \in unhashable : i <= j
        upto == FromObjUpTo(types, Items(obj), reg, 2 * first)
        left(objs) == [obj EXCEPT !.items = [i \in 1..Len(obj.items) |->
                          Pair(obj.items[i].items[1], WriteBack(obj.items[i].items[2], objs[2 * i]))]]
    IN IF ~IsMapping(obj) THEN Done(Raise("AttributeError"), obj, reg)
       ELSE IF unhashable # {} THEN Res(Raise("TypeError"), left(upto.objs), upto.reg, upto.log)
       ELSE IF Raised(c.exc) THEN Res(c.exc, left(c.objs), c.reg, c.log)
       ELSE Res(Ret(DictV(BuildDict(c.vals))), left(c.objs), c.reg, c.log)

\* handler._from_obj of the handler of that name of the Python unit
Handler__from_obj(handler, target_cls, obj, reg) ==
    CASE handler = "Rterable" -> Rterable__from_obj(target_cls, obj, reg)
      [] handler = "Ret" -> Ret__from_obj(target_cls, obj, reg)
      [] handler = "Ruple" -> Ruple__from_obj(target_cls, obj, reg)
      [] handler = "Rnion" -> Rnion__from_obj(target_cls, obj, reg)
      [] handler = "Rict" -> Rict__from_obj(target_cls, obj, reg)
      [] OTHER -> Done(BuiltIn__from_obj(handler, target_cls, obj), obj, reg)

\* Simple.from_obj of the Python unit
Python_from_obj(target_cls, obj, reg) ==
    IF ~Python_contains(target_cls, reg) THEN Done(RaiseErr(UnRepresentedTypeError(target_cls, obj)), obj, reg)
    ELSE Handler__from_obj(Python_get(target_cls, reg), target_cls, obj, reg)

\* Simple.from_obj of the Value unit, with Rone._from_obj and Nny._from_obj
Value_from_obj(target_cls, obj, reg) ==
    IF ~Value_contains(target_cls) THEN Done(RaiseErr(UnRepresentedTypeError(target_cls, obj)), obj, reg)
    ELSE IF Value_get(target_cls) = "Rone" THEN Done(Ret(NoneV), obj, reg)
    ELSE Done(Ret(obj), obj, reg)

\* Identity._from_obj
Identity__from_obj(target_cls, obj, reg) == orchestrator_from_obj(target_cls.args[1], obj, reg)

\* the _from_obj of the Dependent handler of that name
RECURSIVE Dependent___from_obj(_, _, _, _)
\* Simple.from_obj of the ParameterValue unit
ParameterValue_from_obj(target_cls, obj, reg) ==
    LET Made(ru) ==
            IF ru = "" THEN Done(RaiseErr(UnRepresentedTypeError(target_cls, obj)), obj, reg)
            ELSE IF ru = "Identity" THEN Identity__from_obj(target_cls, obj, reg)
            ELSE Dependent___from_obj(ru, target_cls, obj, reg)
    IN Made(ParameterValue_get(target_cls, reg))

type_str(obj) == IF HasKey(obj, "type") THEN RawGet(obj, "type") ELSE NoneV
\* obj["type"] = type_str on an obj the key was popped from
Restored(obj, t) == [obj EXCEPT !.items = Append(obj.items, Pair(StrV("type"), t))]

\* a loop of _from_obj that hands each Parameter the raw obj as local_state
RECURSIVE KwargsUpTo_raw(_, _, _, _)
KwargsUpTo_raw(subclass, obj, reg, n) ==
    IF n = 0 THEN [kwargs |-> <<>>, obj |-> obj, reg |-> reg, log |-> <<>>, exc |-> NoOut]
    ELSE LET init == KwargsUpTo_raw(subclass, obj, reg, n - 1)
             po == SelectSeq(parameter_order(subclass), LAMBDA key : HasKey(obj, key))
             at == IF po = <<>> THEN n ELSE CHOOSE j \in 1..Len(obj.items) : RawKeys(obj)[j] = StrV(po[n])
             k == RawKeys(obj)[at]
             r == orchestrator_from_obj(Parameter(ParamOf(subclass, k.s).annotation, subclass, DictV(obj.items), k.s),
                                        GetItem(init.obj, k.s), init.reg)
         IN IF Raised(init.exc) THEN init
            ELSE IF ~(k.k = "str" /\ HasParam(subclass, k.s)) THEN [init EXCEPT !.exc = Raise("KeyError")]
            ELSE [kwargs |-> IF Raised(r.out) THEN init.kwargs ELSE Append(init.kwargs, Pair(k, r.out.val)),
                  obj |-> [init.obj EXCEPT !.items[at] = Pair(k, WriteBack(init.obj.items[at].items[2], r.obj))],
                  reg |-> r.reg,
                  log |-> init.log \o r.log,
                  exc |-> IF Raised(r.out) THEN r.out ELSE NoOut]

\* `target_cls.parameter_order or obj.keys()`, of which the loop of
\* _from_obj visits the keys of obj: their positions in obj, in that order
ArgumentOrder(subclass, obj) ==
    IF parameter_order(subclass) = <<>> THEN [i \in 1..Len(obj.items) |-> i]
    ELSE LET po == SelectSeq(parameter_order(subclass), LAMBDA k : HasKey(obj, k))
         IN [i \in 1..Len(po) |-> CHOOSE j \in 1..Len(obj.items) : RawKeys(obj)[j] = StrV(po[i])]

\* the loop of BaseConstructorValue._from_obj over the first n keys it
\* visits: the kwargs made so far are the local_state of the next Parameter
RECURSIVE KwargsUpTo(_, _, _, _)
KwargsUpTo(subclass, obj, reg, n) ==
    IF n = 0 THEN [kwargs |-> <<>>, obj |-> obj, reg |-> reg, log |-> <<>>, exc |-> NoOut]
    ELSE LET Made(init, at, k, r) ==
                 [kwargs |-> IF Raised(r.out) THEN init.kwargs ELSE Append(init.kwargs, Pair(k, r.out.val)),
                  obj |-> [init.obj EXCEPT !.items[at] = Pair(k, WriteBack(init.obj.items[at].items[2], r.obj))],
                  reg |-> r.reg,
                  log |-> init.log \o r.log,
                  exc |-> IF Raised(r.out) THEN r.out ELSE NoOut]
             With(init, at, k, parameter) == Made(init, at, k, orchestrator_from_obj(parameter, GetItem(init.obj, k.s), init.reg))
             Keyed(init, at, k) ==
                 IF Raised(init.exc) THEN init
                 ELSE IF ~(k.k = "str" /\ HasParam(subclass, k.s)) THEN [init EXCEPT !.exc = Raise("KeyError")]
                 ELSE With(init, at, k, Parameter(ParamOf(subclass, k.s).annotation, subclass, DictV(init.kwargs), k.s))
             At(init, at) == Keyed(init, at, RawKeys(obj)[at])
         IN At(KwargsUpTo(subclass, obj, reg, n - 1), ArgumentOrder(subclass, obj)[n])

\* the default of a parameter that has one
default(subclass, n) == BoolV(FALSE)
\* target_cls.constructor called with kwargs: the instance, or the TypeError of a
\* missing argument
constructor(subclass, kwargs) ==
    IF \E i \in 1..Len(parameters(subclass)) :
           ~parameters(subclass)[i].has_default /\ ~HasKey(DictV(kwargs), parameters(subclass)[i].name)
    THEN Raise("TypeError")
    ELSE Ret(ObjV(subclass, [i \in 1..Len(parameters(subclass)) |->
             Pair(StrV(parameters(subclass)[i].name),
                  IF HasKey(DictV(kwargs), parameters(subclass)[i].name)
                  THEN RawGet(DictV(kwargs), parameters(subclass)[i].name)
                  ELSE default(subclass, parameters(subclass)[i].name))]))

\* ConstructorValue.from_obj with BaseConstructorValue._from_obj: the type
\* key is popped, and put back only when every argument was made
ConstructorValue_from_obj(target_cls, obj, reg) ==
    LET subclass == target_cls.args[1].o
        constructed(c) ==
            IF Raised(c.exc) THEN Res(c.exc, c.obj, c.reg, c.log)
            ELSE Res(constructor(subclass, c.kwargs), Restored(c.obj, type_str(obj)), c.reg, c.log)
    IN IF obj.k \in {"list", "set"} THEN Done(Raise("TypeError"), obj, reg)
       ELSE IF ~IsMapping(obj) THEN Done(Raise("AttributeError"), obj, reg)
       ELSE IF ~IsNone(check_parameter_order(subclass)) THEN Done(RaiseErr(check_parameter_order(subclass).err[1]), Popped(obj), reg)
       ELSE constructed(KwargsUpTo(subclass, Popped(obj), reg, Len(ArgumentOrder(subclass, Popped(obj)))))

\* DataClass.from_obj
DataClass_from_obj(target_cls, obj, reg) ==
    orchestrator_from_obj(Constructor(target_cls), obj, Constructor___post_init__(target_cls.o, reg))

\* Anum.from_obj: self._registry[target_cls][obj]
Anum_from_obj(target_cls, obj, reg) ==
    IF ~IsHashableValue(obj) THEN Done(Raise("TypeError"), obj, reg)
    ELSE IF obj.k = "str" /\ obj.s \in AnumRegistry(target_cls.o) THEN Done(Ret(EnumV(obj.s)), obj, reg)
    ELSE Done(Raise("KeyError"), obj, reg)

\* Complex.from_obj, with Complex._from_obj of the class resolved
Complex_from_obj(target_cls, obj, reg) ==
    LET general_check_output == cls_general_check(target_cls, obj, reg, TRUE)
        ru == resolve_class_name(target_cls.o, Params_get(obj, "type").s)
    IN IF Raised(general_check_output.out) THEN general_check_output
       ELSE IF general_check_output.out.err # <<>>
       THEN Res(RaiseErr(general_check_output.out.err[1]), obj, general_check_output.reg, <<>>)
       ELSE IF general_check_output.out.val # NoneV THEN general_check_output
       ELSE orchestrator_from_obj(Constructor(Cls(ru)), obj, Constructor___post_init__(ru, general_check_output.reg))

\* a loop that sets every key, whether obj has it or not
RECURSIVE Injected_over(_, _, _)
Injected_over(obj, args, n) ==
    IF n = 0 THEN obj
    ELSE LET init == Injected_over(obj, args, n - 1)
         IN [init EXCEPT !.items = Append(SelectSeq(@, LAMBDA kv : kv.items[1] # args[n].items[1]), args[n])]

\* the loop of Dependent._from_obj over the first n items of args:
\* `if k not in obj: obj[k] = v`
RECURSIVE Injected(_, _, _)
Injected(obj, args, n) ==
    IF n = 0 THEN obj
    ELSE LET init == Injected(obj, args, n - 1)
         IN IF HasKey(init, args[n].items[1].s) THEN init
            ELSE [init EXCEPT !.items = Append(@, args[n])]

\* Dependent._from_obj, of DependentTypeCheck and DependentFromObj alike:
\* the paths are walked through the attributes of the siblings made
Dependent__from_obj(target_cls, obj, reg) ==
    LET wrapped == target_cls.args[1].args[1].o
        literal_dict == literal_dict_of(target_cls)
        Falsy(t) == t.k = "None" \/ (t.k \in {"int", "bool", "float"} /\ t.n = 0) \/ (t.k = "str" /\ t.s = "")
                       \/ (t.k \in {"list", "tuple", "set", "dict", "Params"} /\ t.items = <<>>)
        Last(lg, r) == Res(r.out, r.obj, r.reg, lg \o r.log)
        Resolved_(reg_, lg, nu, t, n, exploded) ==
            IF ~Falsy(t) /\ ~IsHashableValue(t) THEN Res(Raise("TypeError"), nu, exploded, lg)
            ELSE IF ~(Falsy(t) \/ t.k = "str") \/ n \notin ChildNames(wrapped) THEN Res(Raise("KeyError"), nu, exploded, lg)
            ELSE Last(lg, orchestrator_from_obj(Cls(resolve_class_name(wrapped, n)), nu, exploded))
        Named_(reg_, lg, nu, t, default_name) ==
            IF Falsy(t) /\ Raised(default_name) THEN Res(default_name, nu, reg_, lg)
            ELSE Resolved_(reg_, lg, nu, t, IF Falsy(t) THEN name(wrapped) ELSE t.s, reg_ \cup Exploded(wrapped))
        Enriched(reg_, lg, nu) ==
            IF ~IsMapping(obj) THEN Res(Raise("TypeError"), obj, reg_, lg)
            ELSE IF ~HasKey(nu, "type") THEN Res(Raise("KeyError"), nu, reg_, lg)
            ELSE Named_(reg_, lg, nu, GetItem(nu, "type"), Complex_name(wrapped))
        Keyed(reg_, lg, args, literal_dict_key_check) ==
            IF ~IsNone(literal_dict_key_check) THEN Res(RaiseErr(literal_dict_key_check.err[1]), obj, reg_, lg)
            ELSE Enriched(reg_, lg, Injected(obj, args.acc, Len(args.acc)))
        WithArgs(reg_, lg, args) ==
            IF args.exc # "" THEN Res(Raise(args.exc), obj, reg_, lg)
            ELSE Keyed(reg_, lg, args, check_literal_dict_keys(target_cls, literal_dict, args.acc))
        Checked(check_arg_output) ==
            IF Raised(check_arg_output.out) THEN check_arg_output
            ELSE IF ~IsNone(check_arg_output.out)
            THEN Res(RaiseErr(check_arg_output.out.err[1]), obj, check_arg_output.reg, check_arg_output.log)
            ELSE WithArgs(check_arg_output.reg, check_arg_output.log, get_args(target_cls, literal_dict, TRUE, 0))
    IN Checked(check_args(target_cls, obj, reg))

\* DependentUnion._from_obj: the candidate that validated holds the local
\* state as the validations left it
DependentUnion__from_obj(target_cls, obj, reg) ==
    LET Last(lg, r) == Res(r.out, r.obj, r.reg, lg \o r.log)
        Chosen(output) ==
            IF Raised(output.exc) THEN Res(output.exc, obj, output.reg, output.log)
            ELSE IF output.output = 0 THEN Res(RaiseErr(KeyValueError(target_cls, output.key_values, obj)), obj, output.reg, output.log)
            ELSE Last(output.log,
                      orchestrator_from_obj(get_parameter_subtype([target_cls EXCEPT !.ls = cls_local_state_after(target_cls, obj, reg)],
                                                                  target_cls.args[1].args[output.output]), obj, output.reg))
    IN Chosen(cls_get_parameter(target_cls, obj, reg))

Dependent___from_obj(handler, target_cls, obj, reg) ==
    IF handler = "DependentUnion" THEN DependentUnion__from_obj(target_cls, obj, reg)
    ELSE cls__from_obj(target_cls, obj, reg)

\* the local state once the first n items of literal_dict were set in obj
\* and the construction lg reached them: obj, a Params, hands a dict out
\* wrapped, and Params(value) rewrites the dict
RECURSIVE WrappedUpTo(_, _, _, _, _)
WrappedUpTo(local_state, literal_dict, obj, lg, n) ==
    IF n = 0 THEN local_state
    ELSE LET init == WrappedUpTo(local_state, literal_dict, obj, lg, n - 1)
             k == literal_dict.items[n].items[1].s
         IN IF obj.k = "Params" /\ ~HasKey(obj, k)
                /\ \E i \in 1..Len(lg) : lg[i].ev = "from_obj" /\ lg[i].cls.o = "Parameter" /\ lg[i].cls.pname = k
            THEN ReplaceAt(init, split(literal_dict.items[n].items[2].s), 1)
            ELSE init

\* target_cls.local_state once the _from_obj of the handler of target_cls
\* has ended
local_state_made(target_cls, obj, reg) ==
    LET Chosen(output, validated) ==
            IF Raised(output.exc) \/ output.output = 0 THEN validated.ls
            ELSE cls_local_state_made(get_parameter_subtype(validated, target_cls.args[1].args[output.output]), obj, output.reg)
        Of(handler) ==
            IF handler = "DependentUnion"
            THEN Chosen(cls_get_parameter(target_cls, obj, reg), [target_cls EXCEPT !.ls = cls_local_state_after(target_cls, obj, reg)])
            ELSE IF handler \in {"DependentTypeCheck", "DependentFromObj"} /\ IsNone(check_args(target_cls, obj, reg).out)
            THEN WrappedUpTo(target_cls.ls, literal_dict_of(target_cls), obj, cls__from_obj(target_cls, obj, reg).log,
                             Len(literal_dict_of(target_cls).items))
            ELSE target_cls.ls
    IN IF target_cls.o # "Parameter" THEN target_cls.ls ELSE Of(ParameterValue_get(target_cls, reg))

\* unit.from_obj(target_cls, orchestrator, obj) of the unit of that name
Unit_from_obj(unit, target_cls, obj, reg) ==
    CASE unit = "Value" -> Value_from_obj(target_cls, obj, reg)
      [] unit = "ParameterValue" -> ParameterValue_from_obj(target_cls, obj, reg)
      [] unit = "ConstructorValue" -> ConstructorValue_from_obj(target_cls, obj, reg)
      [] unit = "Python" -> Python_from_obj(target_cls, obj, reg)
      [] unit = "Anum" -> Anum_from_obj(target_cls, obj, reg)
      [] unit = "DataClass" -> DataClass_from_obj(target_cls, obj, reg)
      [] unit = "Complex" -> Complex_from_obj(target_cls, obj, reg)
      [] OTHER -> Done(NoOut, obj, reg)

\* cls.local_state once Base.type_check(cls, obj) has ended: the unit is
\* handed what the alters made of obj
Base_local_state_after(cls, obj, reg) ==
    LET Altered(a) ==
            IF Raised(a.out) \/ a.out.err # <<>> \/ orchestrator_get(cls, a.reg) # "ParameterValue" THEN cls.ls
            ELSE cls_local_state_after(cls, a.out.val, a.reg)
    IN IF cls.o # "Parameter" \/ cls.args[1].o \notin Dependents THEN cls.ls
       ELSE Altered(orchestrator_alter_obj(cls, obj, reg))

\* cls.local_state once Base.from_obj(cls, obj) has ended
Base_local_state_made(cls, obj, reg) ==
    LET Altered(a) ==
            IF Raised(a.out) \/ a.out.err # <<>> \/ orchestrator_get(cls, a.reg) # "ParameterValue" THEN cls.ls
            ELSE cls_local_state_made(cls, a.out.val, a.reg)
    IN IF cls.o # "Parameter" \/ cls.args[1].o \notin Dependents THEN cls.ls
       ELSE Altered(orchestrator_alter_obj(cls, obj, reg))

\* the operations that call one another, by name: the methods of the
\* orchestrator, the methods of Dependent, the local state of cls that
\* each leaves, and the loops over the elements of a value, whose cls is
\* the types and whose obj is the elements
Orchestrator(method, cls, obj, reg) ==
    CASE method = "contains" -> Base_contains(cls, reg)
      [] method = "get" -> Base_get(cls, reg)
      [] method = "alter_obj" -> Base_alter_obj(cls, obj, reg)
      [] method = "type_check" -> Base_type_check(cls, obj, reg)
      [] method = "from_obj" -> Base_from_obj(cls, obj, reg)
      [] method = "type_check.local_state" -> Base_local_state_after(cls, obj, reg)
      [] method = "from_obj.local_state" -> Base_local_state_made(cls, obj, reg)
      [] method = "perfunctory_type_check" -> perfunctory_type_check(cls, obj, reg, FALSE)
      [] method = "perfunctory_type_check.dependent_from_obj" -> perfunctory_type_check(cls, obj, reg, TRUE)
      [] method = "general_check" -> general_check(cls, obj, reg, FALSE)
      [] method = "general_check.is_from_obj" -> general_check(cls, obj, reg, TRUE)
      [] method = "get_parameter" -> get_parameter(cls, obj, reg)
      [] method = "_from_obj" -> Dependent__from_obj(cls, obj, reg)
      [] method = "_type_check.local_state" -> local_state_after(cls, obj, reg)
      [] method = "_from_obj.local_state" -> local_state_made(cls, obj, reg)
      [] method = "type_check.all" -> TypeCheckUpTo(cls, obj, reg, IF Len(cls) < Len(obj) THEN Len(cls) ELSE Len(obj))
      [] method = "from_obj.all" -> FromObjUpTo(cls, obj, reg, IF Len(cls) < Len(obj) THEN Len(cls) ELSE Len(obj))
      [] method = "type_check.request" ->
            [res |-> orchestrator_type_check(cls, obj, reg), local_state |-> orchestrator_local_state_after(cls, obj, reg)]
      [] method = "from_obj.request" ->
            [res |-> orchestrator_from_obj(cls, obj, reg), local_state |-> orchestrator_local_state_made(cls, obj, reg)]

(***************************************************************************)
(* The requests of the model: the orchestrators, the target types and the  *)
(* values a caller passes.                                                 *)
(***************************************************************************)
Str(s) == StrV(s)
Entry(k, v) == Pair(StrV(k), v)

\* the orchestrators of the model, as (units, alters).  Level, an int
\* enumeration, is claimed by Python and by Anum, in either order; the
\* alters are none, one, two with keys of their own, and two that share keys
PythonFirst == <<"Value", "ParameterValue", "ConstructorValue", "Python", "Anum", "DataClass", "Complex">>
PythonLast == <<"Value", "ParameterValue", "ConstructorValue", "Anum", "DataClass", "Complex", "Python">>
Orchestrators ==
    { <<PythonFirst, <<>> >>,
      <<PythonLast, <<DictV(<<Entry("a", IntV(1)), Entry("b", Str("x")), Entry("k", ObjV("Fruit", <<>>))>>)>> >>,
      <<PythonFirst, <<DictV(<<Entry("a", IntV(1)), Entry("k", ObjV("Fruit", <<>>))>>), DictV(<<Entry("b", IntV(2))>>)>> >>,
      <<PythonLast, <<DictV(<<Entry("a", IntV(1)), Entry("b", Str("x"))>>), DictV(<<Entry("a", IntV(2)), Entry("b", IntV(3))>>)>> >> }

UserDictParams(key) == ParamsV(<<Entry("type", Str("user_dict")), Entry("key", Str(key))>>)

\* every list of at most n elements of S
RECURSIVE ListsUpTo(_, _)
ListsUpTo(S, n) ==
    IF n = 0 THEN {<<>>}
    ELSE ListsUpTo(S, n - 1) \cup {Append(l, x) : l \in {m \in ListsUpTo(S, n - 1) : Len(m) = n - 1}, x \in S}

Scalars == {NoneV, IntV(1), BoolV(TRUE), FloatV(15), Str("1"), Str("x"), Str("High")}
Lists == {ListV(l) : l \in ListsUpTo({IntV(1), Str("x")}, MaxLen)}
Iterables == {ListV(<<>>), SetV(<<>>), ListV(<<ListV(<<IntV(1)>>)>>), Str("ab"), DictV(<<Entry("a", IntV(1))>>)}

WorkoutParams(reps) ==
    ParamsV(<<Entry("lift", Str("Squat")), Entry("reps", reps), Entry("weight", FloatV(15))>>)
BeefDict == DictV(<<Entry("type", Str("beef")), Entry("weight", FloatV(15))>>)
MealParams(snack) == ParamsV(<<Entry("type", Str("meal")), Entry("snack", snack), Entry("main", BeefDict)>>)

BuiltInTypes == {Cls("int"), Cls("str"), Cls("bool"), Cls("float")}
List_(t) == Generic("List", <<t>>)
Set_(t) == Generic("Set", <<t>>)
Union_(t, u) == Generic("Union", <<t, u>>)
SetTypes == {Set_(Cls("int")), Set_(List_(Cls("int"))), Set_(Cls("Any")), Set_(Cls("Lift"))}
UnionTypes ==
    { Union_(Cls("int"), Cls("str")), Union_(Cls("int"), Cls("NoneType")), Union_(Cls("bool"), List_(Cls("int"))),
      Union_(Cls("Lift"), Cls("str")), Union_(Cls("str"), Cls("Lift")) }
ParameterTypes ==
    { Parameter(Cls("int"), "Workout", WorkoutParams(IntV(1)), "reps"),
      Parameter(Cls("bool"), "Workout", WorkoutParams(IntV(1)), "maxed"),
      Parameter(Cls("Lift"), "Workout", WorkoutParams(IntV(1)), "lift"),
      Parameter(Cls("Fruit"), "Meal", NoneV, "snack"),
      Parameter(Cls("Workout"), "Meal", NoneV, "snack"),
      Parameter(Cls("Unregistered"), "Meal", NoneV, "snack") }

\* the (target type, value) pairs a caller asks about
Pairs ==
    (BuiltInTypes \X Scalars)
        \cup ({Cls("NoneType"), Cls("Any"), Cls("Level"), Cls("Lift"), Cls("Unregistered")} \X {NoneV, IntV(1), Str("High"), Str("Squat")})
        \cup ({List_(Cls("int"))} \X (Lists \cup {IntV(1), SetV(<<IntV(1)>>), TupleV(<<IntV(1), Str("x")>>), Str("1")}))
        \cup ({List_(Cls("Unregistered")), List_(Cls("Lift"))} \X {ListV(<<>>), ListV(<<Str("Squat")>>)})
        \cup (SetTypes \X (Iterables \cup {IntV(1), ListV(<<IntV(1), Str("x"), IntV(1), Str("x")>>)}))
        \cup (UnionTypes \X {NoneV, IntV(1), BoolV(TRUE), FloatV(15), Str("x"), Str("Squat"), ListV(<<IntV(1)>>)})
        \cup ({Generic("Tuple", <<Cls("int"), Cls("str")>>)} \X {TupleV(<<IntV(1), Str("x")>>), ListV(<<Str("x"), IntV(1)>>), TupleV(<<IntV(1)>>), TupleV(<<IntV(1), Str("x"), IntV(1)>>), IntV(1)})
        \cup ({Generic("Dict", <<Cls("str"), Cls("int")>>), Generic("Dict", <<List_(Cls("int")), Cls("int")>>)}
                \X {DictV(<<>>), DictV(<<Entry("a", IntV(1))>>), DictV(<<Entry("a", Str("x")), Pair(IntV(1), IntV(1))>>),
                    DictV(<<Entry("a", Str("x")), Entry("b", Str("x"))>>), IntV(1)})
        \cup ({Cls("Workout")} \X {WorkoutParams(IntV(1)), WorkoutParams(BoolV(TRUE)), WorkoutParams(Str("x")),
                                   WorkoutParams(DictV(UserDictParams("a").items)), ParamsV(<<Entry("lift", Str("Squat"))>>), IntV(1),
                                   ParamsV(<<Entry("lift", EnumV("Squat")), Entry("reps", IntV(1)), Entry("weight", FloatV(15))>>),
                                   ParamsV(<<Entry("reps", IntV(1)), Entry("x", Str("x")), Entry("lift", Str("Squat")), Entry("weight", FloatV(15))>>),
                                   ParamsV(<<Entry("lift", Str("Squat")), Entry("x", IntV(1))>>),
                                   ParamsV(<<Entry("weight", FloatV(15)), Entry("reps", Str("x")), Entry("lift", Str("x"))>>),
                                   ParamsV(<<Entry("maxed", BoolV(TRUE)), Entry("weight", FloatV(15)), Entry("reps", IntV(1)), Entry("lift", Str("Squat"))>>)})
        \cup ({Cls("Food"), Cls("Fruit")} \X {ParamsV(BeefDict.items), ParamsV(<<Entry("type", Str("tofu"))>>), ObjV("Fruit", <<>>)})
        \cup ({Cls("Menu")} \X {MealParams(DictV(UserDictParams("k").items)), MealParams(IntV(1)),
                                ParamsV(<<Entry("type", Str("meal")), Entry("main", BeefDict), Entry("snack", DictV(UserDictParams("k").items))>>)})
        \cup (ParameterTypes \X {IntV(1), BoolV(TRUE), EnumV("Squat"), ObjV("Fruit", <<>>), ObjV("Workout", <<>>), UserDictParams("a"), UserDictParams("b"), UserDictParams("k")})

NoPrev == [op |-> "", out |-> NoOut]

(***************************************************************************)
(* The state machine.  An orchestrator is built, and then serves requests  *)
(* one at a time: a caller asks for type_check or from_obj of a pair, and  *)
(* the orchestrator runs the call to its end.                              *)
(***************************************************************************)
Init ==
    /\ \E o \in Orchestrators : units = o[1] /\ alters = o[2]
    /\ registry = InitialRegistry
    /\ phase = "idle"
    /\ op = ""
    /\ call_cls = NoType
    /\ call_obj = NoneV
    /\ out = NoOut
    /\ log = <<>>
    /\ prev = NoPrev
    /\ registries = Imported

\* a caller asks for operation o of the pair (t, v); the outcome of the
\* call before is kept when that call was for the same pair
Request(o, t, v) ==
    /\ phase \in {"idle", "done"}
    /\ phase' = "called"
    /\ op' = o
    /\ call_cls' = t
    /\ call_obj' = v
    /\ prev' = IF phase = "done" /\ log[1].cls = t /\ log[1].obj = v
               THEN [op |-> op, out |-> out] ELSE NoPrev
    /\ out' = NoOut
    /\ log' = <<>>
    /\ UNCHANGED <<units, alters, registry, registries>>

\* Base.type_check(call_cls, call_obj), run to its end
TypeCheck ==
    /\ phase = "called" /\ op = "type_check"
    /\ \E r \in {Orchestrator("type_check.request", call_cls, call_obj, registry)} :
          /\ out' = r.res.out
          /\ call_obj' = r.res.obj
          /\ registry' = r.res.reg
          /\ log' = r.res.log
          /\ call_cls' = [call_cls EXCEPT !.ls = r.local_state]
    /\ phase' = "done"
    /\ UNCHANGED <<units, alters, op, prev, registries>>

\* Base.from_obj(call_cls, call_obj), run to its end
FromObj ==
    /\ phase = "called" /\ op = "from_obj"
    /\ \E r \in {Orchestrator("from_obj.request", call_cls, call_obj, registry)} :
          /\ out' = r.res.out
          /\ call_obj' = r.res.obj
          /\ registry' = r.res.reg
          /\ log' = r.res.log
          /\ call_cls' = [call_cls EXCEPT !.ls = r.local_state]
    /\ phase' = "done"
    /\ UNCHANGED <<units, alters, op, prev, registries>>

Next ==
    \/ \E o \in {"type_check", "from_obj"}, pr \in Pairs : Request(o, pr[1], pr[2])
    \/ TypeCheck
    \/ FromObj

Spec == Init /\ [][Next]_vars

(***************************************************************************)
(* The requests for the classes of the Gym hierarchy alone: every class of *)
(* it as the target, with a tag of each named class, a tag of none, and no *)
(* tag.                                                                    *)
(***************************************************************************)
HierarchyPairs ==
    ({Cls(c) : c \in {"Gym", "Food", "Meat", "Fruit", "Beef", "Pork", "Menu", "Meal"}}
        \X { ParamsV(BeefDict.items), ParamsV(<<Entry("type", Str("pork")), Entry("weight", FloatV(15))>>),
             ParamsV(<<Entry("type", Str("tofu"))>>), ParamsV(<<Entry("weight", FloatV(15))>>),
             ParamsV(<<Entry("type", Str("Meat")), Entry("weight", FloatV(15))>>),
             ParamsV(<<Entry("type", Str("")), Entry("weight", FloatV(15))>>),
             MealParams(DictV(UserDictParams("k").items)), ObjV("Fruit", <<>>) })

HierarchyNext ==
    \/ \E o \in {"type_check", "from_obj"}, pr \in HierarchyPairs : Request(o, pr[1], pr[2])
    \/ TypeCheck
    \/ FromObj

HierarchySpec == Init /\ [][HierarchyNext]_vars

\* requests against the none target, in its two spellings, and against Set
\* targets with sets whose elements fail at the head, in the middle, at the end
ValuePairs ==
    ({Cls("None"), Cls("NoneType")}
        \X {NoneV, IntV(0), IntV(1), BoolV(FALSE), FloatV(0), Str(""), Str("None"), ListV(<<>>), ListV(<<NoneV>>),
             TupleV(<<>>), SetV(<<>>), DictV(<<>>), ParamsV(<<>>), EnumV("Squat"), ObjV("Fruit", <<>>),
             ClassV("NoneType"), ClassV("int")})
        \cup ({Set_(Cls("int")), Set_(Cls("str"))}
                \X {SetV(<<>>), SetV(<<IntV(1)>>), SetV(<<Str("x")>>), SetV(<<Str("x"), IntV(1)>>), SetV(<<IntV(1), Str("x")>>),
                    SetV(<<IntV(1), Str("x"), IntV(2), Str("y")>>), SetV(<<IntV(1), IntV(2), Str("x")>>),
                    ListV(<<IntV(1), Str("x"), IntV(1), Str("x")>>), TupleV(<<Str("x"), IntV(1), Str("x")>>), IntV(1)})

ValueNext ==
    \/ \E o \in {"type_check", "from_obj"}, pr \in ValuePairs : Request(o, pr[1], pr[2])
    \/ TypeCheck
    \/ FromObj

ValueSpec == Init /\ [][ValueNext]_vars

(***************************************************************************)
(* The requests for dependent parameters: a Parameter of Meal whose type   *)
(* wraps Meat, whose classes Beef and Pork take a float weight, with the   *)
(* local state a caller or a constructor hands it.  The literals are well  *)
(* formed with a path of one or two segments, or malformed in each way     *)
(* check_args and check_literal_dict tell apart.                           *)
(***************************************************************************)
Literal_(pairs) == Literal(<<DictV(pairs)>>)
DependentTypeCheck_(l) == Generic("DependentTypeCheck", <<Cls("Meat"), l>>)
DependentFromObj_(l) == Generic("DependentFromObj", <<Cls("Meat"), l>>)
DependentUnion_(d, t) == Generic("DependentUnion", <<d, t>>)
WellFormedLiterals ==
    { Literal_(<<Entry("weight", Str("w"))>>), Literal_(<<Entry("weight", Str("a.b"))>>),
      Literal_(<<Entry("weight", Str("a.weight"))>>) }
MalformedLiterals ==
    { Cls("NoneType"), Literal(<<IntV(1), NoneV>>), Literal(<<IntV(1)>>), Literal_(<<Entry("weight", IntV(1))>>),
      Literal_(<<Entry("feed", Str("w"))>>), Literal_(<<Entry("weight", Str("a.b.c"))>>),
      Literal_(<<Entry("feed", Str("a.b.c")), Entry("weight", Str("q"))>>) }
WellFormedTypes ==
    {DependentTypeCheck_(l) : l \in WellFormedLiterals} \cup {DependentFromObj_(l) : l \in WellFormedLiterals}
MalformedTypes ==
    {DependentTypeCheck_(l) : l \in MalformedLiterals} \cup {DependentFromObj_(l) : l \in MalformedLiterals} \cup {Cls("int")}
UnionTypes_ ==
    {DependentUnion_(d, Cls("Meat")) : d \in WellFormedTypes}
        \cup {DependentUnion_(DependentTypeCheck_(Literal_(<<Entry("weight", Str("w"))>>)), Cls("NoneType")),
              DependentUnion_(Cls("Meat"), DependentTypeCheck_(Literal_(<<Entry("weight", Str("w"))>>)))}
\* the local states: the mapping under validation, a Params, or the kwargs
\* of the siblings made so far, a dict
ParamsStates ==
    { ParamsV(<<>>), ParamsV(<<Entry("w", FloatV(15))>>), ParamsV(<<Entry("w", Str("x"))>>),
      ParamsV(<<Entry("a", DictV(<<Entry("b", FloatV(15))>>))>>), ParamsV(<<Entry("a", DictV(<<>>))>>),
      ParamsV(<<Entry("a", IntV(1))>>),
      ParamsV(<<Entry("a", DictV(<<Entry("type", Str("pork")), Entry("weight", FloatV(15))>>))>>) }
DictStates ==
    { DictV(<<>>), DictV(<<Entry("w", FloatV(15))>>), DictV(<<Entry("a", IntV(1))>>),
      DictV(<<Entry("a", ObjV("Pork", <<Entry("weight", FloatV(15))>>))>>),
      DictV(<<Entry("a", DictV(<<Entry("b", FloatV(15))>>))>>),
      DictV(<<Entry("w", DictV(<<Entry("z", Str("None"))>>))>>) }
UnionStates ==
    { ParamsV(<<>>), ParamsV(<<Entry("w", FloatV(15))>>), ParamsV(<<Entry("a", IntV(1))>>),
      DictV(<<Entry("w", FloatV(15))>>), DictV(<<Entry("a", ObjV("Pork", <<Entry("weight", FloatV(15))>>))>>),
      DictV(<<Entry("w", DictV(<<Entry("z", Str("None"))>>))>>) }
PorkParams == ParamsV(<<Entry("type", Str("pork"))>>)
WeighedPorkParams == ParamsV(<<Entry("type", Str("pork")), Entry("weight", FloatV(25))>>)
TofuParams == ParamsV(<<Entry("type", Str("tofu"))>>)
dependent(t, ls) == Parameter(t, "Meal", ls, "main")
\* the requests with a malformed type or a value the wrapped class rejects
MalformedPairs ==
    ({dependent(t, ls) : t \in MalformedTypes, ls \in {ParamsV(<<>>), ParamsV(<<Entry("w", FloatV(15))>>)}}
         \X {PorkParams, TofuParams})
        \cup ({dependent(t, ls) : t \in {DependentTypeCheck_(Literal_(<<Entry("weight", Str("w"))>>)),
                                          DependentFromObj_(Literal_(<<Entry("weight", Str("w"))>>))},
                                   ls \in {ParamsV(<<>>), ParamsV(<<Entry("w", FloatV(15))>>)}}
                 \X {TofuParams, ParamsV(<<Entry("type", ListV(<<IntV(1)>>))>>), ParamsV(<<>>), NoneV})
DependentPairs ==
    ({dependent(t, ls) : t \in WellFormedTypes, ls \in ParamsStates \cup DictStates} \X {PorkParams, WeighedPorkParams})
        \cup MalformedPairs
        \cup ({dependent(t, ls) : t \in UnionTypes_, ls \in UnionStates} \X {PorkParams, WeighedPorkParams, NoneV})

\* Dependent.perfunctory_type_check(call_cls, orchestrator, call_obj), called
\* as the variant of call_cls calls it
PerfunctoryTypeCheck ==
    /\ phase = "called" /\ op = "perfunctory_type_check"
    /\ \E r \in {cls_perfunctory_type_check(call_cls, call_obj, registry, call_cls.args[1].o = "DependentFromObj")} :
          /\ out' = r.out
          /\ call_obj' = r.obj
          /\ registry' = r.reg
          /\ log' = <<Event("perfunctory_type_check", 0, call_cls, call_obj, "")>> \o Shift(r.log)
    /\ phase' = "done"
    /\ UNCHANGED <<units, alters, op, call_cls, prev, registries>>

\* the orchestrator of the units in their usual order, with no alter
DependentInit == Init /\ units = PythonFirst /\ alters = <<>>

DependentNext ==
    \/ \E o \in {"type_check", "from_obj"}, pr \in DependentPairs : Request(o, pr[1], pr[2])
    \/ \E pr \in MalformedPairs \cup ({dependent(t, ParamsV(<<>>)) : t \in WellFormedTypes} \X {PorkParams}) :
          Request("perfunctory_type_check", pr[1], pr[2])
    \/ TypeCheck
    \/ FromObj
    \/ PerfunctoryTypeCheck

DependentSpec == DependentInit /\ [][DependentNext]_vars

(***************************************************************************)
(* The Gym unit called directly: general_check is a public method of the   *)
(* unit, and a caller may hand it any class, a class the unit does not     *)
(* hold included.                                                          *)
(***************************************************************************)
GeneralCheckClasses ==
    {Cls(c) : c \in {"Gym", "Food", "Meat", "Fruit", "Beef", "Pork", "Menu", "Meal", "Unregistered", "Workout", "int"}}
        \cup {List_(Cls("int"))}
GeneralCheckValues ==
    { ParamsV(BeefDict.items), ParamsV(<<Entry("type", Str("tofu"))>>), ParamsV(<<Entry("weight", FloatV(15))>>),
      ParamsV(<<Entry("type", IntV(1))>>), ParamsV(<<Entry("type", ListV(<<Str("beef")>>))>>),
      BeefDict, IntV(1), NoneV, ObjV("Fruit", <<>>), ObjV("Beef", <<>>), ObjV("Workout", <<>>) }

\* unit.general_check(cls, orchestrator, obj, is_from_obj), run to its end
GeneralCheck(cls, obj, is_from_obj) ==
    /\ phase \in {"idle", "done"}
    /\ \E r \in {general_check(cls, obj, registry, is_from_obj)} :
          /\ out' = r.out
          /\ registry' = r.reg
    /\ phase' = "done"
    /\ op' = "general_check"
    /\ call_cls' = cls
    /\ call_obj' = obj
    /\ log' = <<Event("general_check", 0, cls, obj, IF is_from_obj THEN "is_from_obj" ELSE "")>>
    /\ prev' = NoPrev
    /\ UNCHANGED <<units, alters, registries>>

GeneralCheckNext ==
    \E cls \in GeneralCheckClasses, obj \in GeneralCheckValues, is_from_obj \in BOOLEAN : GeneralCheck(cls, obj, is_from_obj)

GeneralCheckSpec == Init /\ [][GeneralCheckNext]_vars

(***************************************************************************)
(* The decorators at work: from empty registries, classes are registered   *)
(* with the classes above them, under a name or under None, and handlers   *)
(* with the Python unit, a name that is in use included.                   *)
(***************************************************************************)
RegisterInit ==
    /\ units = PythonFirst
    /\ alters = <<>>
    /\ registry = {}
    /\ phase = "idle"
    /\ op = ""
    /\ call_cls = NoType
    /\ call_obj = NoneV
    /\ out = NoOut
    /\ log = <<>>
    /\ prev = NoPrev
    /\ registries = Rooted

\* the registrations made so far
Registrations(r) == Cardinality(r.simple_registry) + Cardinality(r.registry) + Len(r.intermediate_registry)

\* cls.register(name)(subclass) of a class of the hierarchy, run to its end
ComplexRegister(cls, name_, subclass) ==
    /\ phase \in {"idle", "done"}
    /\ \E r \in {Complex_register(cls, name_, subclass, registries, registry)} :
          /\ Registrations(r.registries) <= MaxRegistrations
          /\ out' = r.out
          /\ registries' = r.registries
          /\ registry' = r.keys
    /\ phase' = "done"
    /\ op' = "register"
    /\ call_cls' = Cls(cls)
    /\ call_obj' = name_
    /\ log' = <<Event("register", 0, Cls(subclass), name_, "Complex")>>
    /\ prev' = NoPrev
    /\ UNCHANGED <<units, alters>>

\* cls.register(name)(subclass) of a Simple unit, run to its end
SimpleRegister(cls, name_, subclass) ==
    /\ phase \in {"idle", "done"}
    /\ \E r \in {Simple_register(cls, name_.s, subclass, registries, registry)} :
          /\ Registrations(r.registries) <= MaxRegistrations
          /\ out' = r.out
          /\ registries' = r.registries
          /\ registry' = r.keys
    /\ phase' = "done"
    /\ op' = "register"
    /\ call_cls' = Cls(cls)
    /\ call_obj' = name_
    /\ log' = <<Event("register", 0, Cls(subclass), name_, "Simple")>>
    /\ prev' = NoPrev
    /\ UNCHANGED <<units, alters>>

RegisterNext ==
    \/ \E cls \in {"Food", "Meat"}, name_ \in {NoneV, StrV("beef"), StrV("pork")}, subclass \in {"Meat", "Beef", "Pork"} :
          issubclass(subclass, cls) /\ subclass # cls /\ ComplexRegister(cls, name_, subclass)
    \/ \E name_ \in {StrV("int"), StrV("bool")}, subclass \in {"Int", "Bool"} : SimpleRegister("Python", name_, subclass)

RegisterSpec == RegisterInit /\ [][RegisterNext]_vars

(***************************************************************************)
(* Properties.                                                             *)
(***************************************************************************)
\* a call has run to its end; asked is the value the caller passed
Completed == phase = "done"
asked == log[1].obj
\* the alters applied to the pair of the call itself
TopAlters == {i \in 1..Len(log) : log[i].ev = "alter" /\ log[i].d = 0}
\* the orchestrator calls made for the elements or members of the value
ElementCalls == {i \in 1..Len(log) : log[i].ev = "type_check" /\ log[i].d = 1}
\* the first unit of the orchestrator that contains t ("" when none does),
\* found by counting the units before it
Claimants(t, reg) == {i \in 1..Len(units) : Unit_contains(units[i], t, reg)}
FirstClaimant(t, reg) ==
    IF Claimants(t, reg) = {} THEN ""
    ELSE units[CHOOSE i \in Claimants(t, reg) : Cardinality({j \in Claimants(t, reg) : j < i}) = 0]
IsKeyValueError(o) == Returned(o) /\ o.err # <<>> /\ o.err[1].e = "KeyValueError"
KeysOf(o) == {o.err[1].kv[i].key : i \in 1..Len(o.err[1].kv)}

RECURSIVE HoldsInstance(_)
HoldsInstance(v) ==
    \/ v.k = "enum"
    \/ v.k = "obj" /\ v.s \in DataClassRegistry
    \/ \E i \in 1..Len(v.items) : HoldsInstance(v.items[i])

C3_Idempotent ==
    (Completed /\ op = "type_check" /\ prev.op = "type_check") => out = prev.out

\* C4: Base.get hands the call to the first unit, in the order of units, that
\* contains the target type, also when a later unit contains it too, and
\* raises a TypeCheckError when no unit contains it
C4_FirstClaimant ==
    [][(phase = "called" /\ phase' = "done" /\ Base_a_get(call_cls, call_obj) = <<>>)
          => /\ log'[1].res = FirstClaimant(call_cls, registry)
             /\ Claimants(call_cls, registry) = {}
                   => out' = RaiseErr(TypeCheckError("TypeCheckError", call_cls, NoneV))]_vars

\* Level is contained by Anum and by Python, which comes later: Anum got the call
C4_Witness ==
    /\ Completed /\ call_cls = Cls("Level")
    /\ Cardinality(Claimants(call_cls, registry)) = 2
    /\ units = PythonLast /\ log[1].res = "Anum"

\* C5: at most one alter is applied to the pair of a call
C5_AtMostOneAlter == Completed => Cardinality(TopAlters) <= 1

\* C6: when the substitution of an alter that claims the pair fails, type_check
\* returns, and from_obj raises, a UserDictError that carries the target
\* Parameter, the original value and the exception
C6_StructuredAlterFailure ==
    (Completed /\ \E i \in TopAlters : log[i].res # "substituted") =>
        /\ out.err # <<>> /\ out.err[1].e = "UserDictError"
        /\ out.err[1].tgt = call_cls /\ out.err[1].obj = asked /\ out.err[1].exc # ""
        /\ op = "type_check" => Returned(out)
        /\ op = "from_obj" => Raised(out)

\* C7: type_check of a bool against int is a WrongTypeError, for the target
\* int and for a Parameter whose annotation is int
C7_IntRejectsBool ==
    (Completed /\ op = "type_check" /\ asked.k = "bool"
        /\ (call_cls = Cls("int") \/ (call_cls.o = "Parameter" /\ call_cls.args[1] = Cls("int"))))
        => out = RetErr(WrongTypeError(Cls("int"), asked))

\* the positions (0-based) of the elements of a list that fail on their own
FailingPositions(t, obj, reg) ==
    {i - 1 : i \in {j \in 1..Len(obj.items) : ~IsNone(orchestrator_type_check(t, obj.items[j], reg).out)}}

\* C8: type_check of a list against List[T] checks every element, returns
\* None iff no element fails, and otherwise one KeyValueError whose keys are
\* exactly the indices of the failing elements
C8_ListChecksAll ==
    (Completed /\ op = "type_check" /\ call_cls.o = "List" /\ asked.k = "list" /\ log[1].res = "Python") =>
        /\ Cardinality(ElementCalls) = Len(asked.items)
        /\ IsNone(out) <=> FailingPositions(call_cls.args[1], asked, registry) = {}
        /\ ~IsNone(out) =>
              /\ IsKeyValueError(out)
              /\ KeysOf(out) = {KeyI(i) : i \in FailingPositions(call_cls.args[1], asked, registry)}
              /\ Len(out.err[1].kv) = Cardinality(FailingPositions(call_cls.args[1], asked, registry))

\* [1, "x", 1, "x"] against List[int]: the keys are 1 and 3
C8_Witness ==
    /\ Completed /\ op = "type_check" /\ call_cls = List_(Cls("int"))
    /\ asked = ListV(<<IntV(1), Str("x"), IntV(1), Str("x")>>)
    /\ IsKeyValueError(out) /\ KeysOf(out) = {KeyI(1), KeyI(3)}

\* C9: for a Set target whose element handler is not declared hashable,
\* type_check of an iterable value returns a HashableError, before any
\* element is checked
C9_HashableGate ==
    (Completed /\ op = "type_check" /\ call_cls.o = "Set" /\ log[1].res = "Python" /\ IsIterable(asked)
        /\ ~(HasHashableAttr(call_cls.args[1], registry) /\ hashable(ElementHandler(call_cls.args[1], registry))))
        => (out = RetErr(HashableError(call_cls, asked)) /\ ElementCalls = {})

\* the members of a Union that validate the value on their own
Validating(t, obj, reg) == {i \in 1..Len(t.args) : IsNone(orchestrator_type_check(t.args[i], obj, reg).out)}

\* C10: type_check against a Union returns None iff at least one member
\* validates the value, and otherwise a KeyValueError with one failure per
\* member
C10_UnionAnyMember ==
    (Completed /\ op = "type_check" /\ call_cls.o = "Union" /\ log[1].res = "Python") =>
        /\ IsNone(out) <=> Validating(call_cls, asked, registry) # {}
        /\ ~IsNone(out) =>
              /\ IsKeyValueError(out)
              /\ Len(out.err[1].kv) = Len(call_cls.args)
              /\ \A i \in 1..Len(call_cls.args) :
                    out.err[1].kv[i] = KV(KeyT(call_cls.args[i]), orchestrator_type_check(call_cls.args[i], asked, registry).out.err[1])

\* "x" against Union[int, str]: int fails, str validates, the result is None
C10_Witness ==
    /\ Completed /\ op = "type_check" /\ call_cls = Union_(Cls("int"), Cls("str")) /\ asked = Str("x")
    /\ Validating(call_cls, asked, registry) = {2} /\ IsNone(out)

\* the nested calls of the given method made directly by the handler of the call
DirectCalls(method) == {i \in 1..Len(log) : log[i].ev = method /\ log[i].d = 1}

\* C11: from_obj against a Union of registered members constructs through
\* the first member, in declared order, that validates the value, and through
\* no other; when no member validates it raises a KeyValueError with one
\* failure per member and constructs through none
C11_UnionFirstValidating ==
    (Completed /\ op = "from_obj" /\ call_cls.o = "Union" /\ log[1].res = "Python"
        /\ \A i \in 1..Len(call_cls.args) : orchestrator_contains(call_cls.args[i], registry)) =>
        LET valid == Validating(call_cls, asked, registry)
            first == CHOOSE i \in valid : \A j \in valid : i <= j
        IN IF valid = {}
           THEN /\ Raised(out) /\ out.err # <<>> /\ out.err[1].e = "KeyValueError"
                /\ Len(out.err[1].kv) = Len(call_cls.args)
                /\ DirectCalls("from_obj") = {}
           ELSE /\ Cardinality(DirectCalls("from_obj")) = 1
                /\ \A i \in DirectCalls("from_obj") : log[i].cls = call_cls.args[first] /\ log[i].obj = asked
                /\ out = orchestrator_from_obj(call_cls.args[first], asked, registry).out

\* "Squat" against Union[Lift, str]: both members validate, and the value is
\* made by Lift, the first, not by str
C11_Witness ==
    /\ Completed /\ op = "from_obj" /\ call_cls = Union_(Cls("Lift"), Cls("str")) /\ asked = Str("Squat")
    /\ Validating(call_cls, asked, registry) = {1, 2}
    /\ out = Ret(EnumV("Squat"))

\* C12: against a Tuple target, an iterable value whose length differs from
\* the number of declared position types is rejected with a TupleArgLenError,
\* returned by type_check and raised by from_obj, and no tuple is made
C12_TupleExactArity ==
    (Completed /\ call_cls.o = "Tuple" /\ log[1].res = "Python" /\ asked.k # "dict" /\ IsIterable(asked)
        /\ Len(Iter(asked)) # Len(call_cls.args)) =>
        /\ op = "type_check" => out = RetErr(TupleArgLenError(call_cls, asked))
        /\ op = "from_obj" => out = RaiseErr(TupleArgLenError(call_cls, asked))

\* the positions of the items of a mapping whose key (part = 1) or value
\* (part = 2) fails against t on its own
FailingParts(part, t, obj, reg) ==
    {j \in 1..Len(obj.items) : ~IsNone(orchestrator_type_check(t, Items(obj)[2 * (j - 1) + part], reg).out)}
\* the entry a KeyValueError holds for the failing part at position j: its
\* key is "<prefix>_<type>_<n>", n counting the failures before it
PartEntry(prefix, part, t, obj, reg, j) ==
    KV([i |-> Cardinality({k \in FailingParts(part, t, obj, reg) : k < j}), s |-> prefix, t |-> <<t>>],
       orchestrator_type_check(t, Items(obj)[2 * (j - 1) + part], reg).out.err[1])

\* C13: type_check of a mapping against Dict[K, V] with a hashable K checks
\* every key and every value, returns None iff none of them fails, and
\* otherwise one KeyValueError holding exactly one entry per failing key,
\* under key_<K>_<n>, and one per failing value, under value_<V>_<n>
C13_DictChecksAll ==
    (Completed /\ op = "type_check" /\ call_cls.o = "Dict" /\ log[1].res = "Python" /\ IsMapping(asked)
        /\ IsNone(Wrapper_is_hashable(call_cls, call_cls.args[1], asked, registry))) =>
        LET K == call_cls.args[1]
            V == call_cls.args[2]
            keys == FailingParts(1, K, asked, registry)
            values == FailingParts(2, V, asked, registry)
        IN /\ Cardinality(ElementCalls) = 2 * Len(asked.items)
           /\ IsNone(out) <=> keys \cup values = {}
           /\ ~IsNone(out) =>
                 /\ IsKeyValueError(out)
                 /\ Len(out.err[1].kv) = Cardinality(keys) + Cardinality(values)
                 /\ {out.err[1].kv[i] : i \in 1..Len(out.err[1].kv)}
                       = {PartEntry("key", 1, K, asked, registry, j) : j \in keys}
                            \cup {PartEntry("value", 2, V, asked, registry, j) : j \in values}
                 /\ Cardinality(KeysOf(out)) = Len(out.err[1].kv)

\* {"a": "x", 1: 1} against Dict[str, int]: the value "x" and the key 1 fail,
\* and the error holds value_int_0 and key_str_0
C13_Witness ==
    /\ Completed /\ op = "type_check" /\ call_cls = Generic("Dict", <<Cls("str"), Cls("int")>>)
    /\ asked = DictV(<<Entry("a", Str("x")), Pair(IntV(1), IntV(1))>>)
    /\ IsKeyValueError(out)
    /\ KeysOf(out) = {[i |-> 0, s |-> "key", t |-> <<Cls("str")>>], [i |-> 0, s |-> "value", t |-> <<Cls("int")>>]}

\* the answer the stated precedence gives for a call of general_check made
\* with the registry keys reg
Precedence(cls, obj, is_from_obj, reg) ==
    IF ~Complex_contains(cls, reg) THEN RetErr(UnRepresentedTypeError(cls, obj))
    ELSE IF is_from_obj /\ isinstance(obj, cls.o) THEN Ret(obj)
    ELSE IF obj.k # "Params" THEN RetErr(ParamError(cls, obj))
    ELSE IF ~(HasKey(obj, "type") /\ RawGet(obj, "type").k = "str" /\ RawGet(obj, "type").s \in ChildNames(cls.o))
    THEN RetErr(ComplexTypeMismatchError(cls, get_instantiate_children(cls.o), obj))
    ELSE RetNone

\* C14: general_check answers by the first of these that applies: the
\* target is not registered (UnRepresentedTypeError), the call is for
\* construction and the value is an instance of the target (the value), the
\* value is not a Params (ParamError), its 'type' is missing or names no
\* constructible descendant (ComplexTypeMismatchError); else it passes
C14_GeneralCheckPrecedence ==
    [][(phase' = "done" /\ op' = "general_check") =>
          out' = Precedence(call_cls', call_obj', log'[1].res = "is_from_obj", registry)]_vars

\* the same, for a 'type' that is missing or hashable
C14_PrecedenceOfHashableType ==
    [][(phase' = "done" /\ op' = "general_check" /\ IsHashableValue(Params_get(call_obj', "type"))) =>
          out' = Precedence(call_cls', call_obj', log'[1].res = "is_from_obj", registry)]_vars

\* the constructible descendants of a class of the hierarchy: the classes
\* registered under a name that are the class or below it
Descendants(c) == {d \in _subclass_registry : issubclass(d, c)}

C15_WitnessOutside ==
    /\ Completed /\ op = "from_obj" /\ call_cls = Cls("Beef") /\ Params_get(asked, "type") = Str("pork")
    /\ Raised(out) /\ out.err # <<>> /\ out.err[1].msg = {Detail("-", "beef", Cls("Beef"))}

\* each name of each scope of a table names one class
OneClassPerName(table) == \A e \in table, f \in table : (e.scope = f.scope /\ e.name = f.name) => e.cls = f.cls

\* C16: a registration under a name that is in use in its scope raises a
\* ConfigurationError and changes no registry; after every registration
\* each entry of the name tables is still there, and a name of a scope
\* names one class
C16_UsedNameKeepsItsClass ==
    [][(phase' = "done" /\ op' = "register") =>
          LET table == IF log'[1].res = "Complex" THEN registries.registry ELSE registries.simple_registry
              used == call_obj' # NoneV /\ \E e \in table : e.scope = call_cls'.o /\ e.name = call_obj'.s
          IN /\ used => (out' = Raise("ConfigurationError") /\ registries' = registries)
             /\ registries.registry \subseteq registries'.registry
             /\ registries.simple_registry \subseteq registries'.simple_registry
             /\ OneClassPerName(registries'.registry) /\ OneClassPerName(registries'.simple_registry)]_vars

\* Meat.register("beef")(Pork) once "beef" is the name of Beef with Meat
C16_Witness ==
    /\ Completed /\ op = "register" /\ log[1].res = "Complex" /\ out = Raise("ConfigurationError")
    /\ \E e \in registries.registry : e.scope = call_cls.o /\ e.name = call_obj.s /\ e.cls # log[1].cls.o

\* the intermediate classes: registered under None, and under no name
UnderNone == {Imported.intermediate_registry[i] : i \in 1..Len(Imported.intermediate_registry)}
Intermediates == {e[1] : e \in UnderNone} \ _subclass_registry
\* the classes registered with c, under a name or under None
Children(c) ==
    {e.cls : e \in {f \in Imported.registry : f.scope = c}} \cup {e[1] : e \in {f \in UnderNone : f[2] = c}}

C18_KeySetMatchesExactly ==
    (Completed /\ call_cls = Cls("Workout") /\ asked.k = "Params"
        /\ parameter_kv("Workout", asked) \cup obj_kv("Workout", asked) # {}) =>
        /\ out.err # <<>>
        /\ out.err[1].e = "KeyValueDiffError"
        /\ out.err[1].msg = parameter_kv("Workout", asked) \cup obj_kv("Workout", asked)
        /\ op = "from_obj" => Raised(out)
        /\ op = "type_check" => Returned(out)
\* the validation half of C18 alone
C18_ValidationRejectsKeyDiff ==
    (Completed /\ op = "type_check" /\ call_cls = Cls("Workout") /\ asked.k = "Params"
        /\ parameter_kv("Workout", asked) \cup obj_kv("Workout", asked) # {}) =>
        /\ Returned(out) /\ out.err # <<>>
        /\ out.err[1].e = "KeyValueDiffError"
        /\ out.err[1].msg = parameter_kv("Workout", asked) \cup obj_kv("Workout", asked)
\* construction of a mapping whose key set differs raises no TypeCheckError
C18_ConstructionRaisesRaw ==
    (Completed /\ op = "from_obj" /\ call_cls = Cls("Workout") /\ asked.k = "Params"
        /\ parameter_kv("Workout", asked) \cup obj_kv("Workout", asked) # {}) =>
        out \in {Raise("TypeError"), Raise("KeyError")}

\* the orchestrator calls made for the arguments of the constructor
ParameterCalls(method) == {i \in 1..Len(log) : log[i].ev = method /\ log[i].d = 2 /\ log[i].cls.o = "Parameter"}
\* the answer of the orchestrator for the value of the key k of asked alone
ParameterVerdict(k) ==
    orchestrator_type_check(Parameter(ParamOf("Workout", k).annotation, "Workout", asked, k), GetItem(asked, k), registry).out
\* the keys of asked whose values fail on their own
FailingParameters == {k \in {CheckedKeys(asked)[j] : j \in 1..Len(CheckedKeys(asked))} : ~IsNone(ParameterVerdict(k))}

\* C19: validation of constructor arguments whose key set matches checks
\* every supplied parameter, also after one has failed, and returns one
\* KeyValueError whose keys are exactly the names of the parameters whose
\* values failed; it returns None if and only if no parameter fails
C19_ValidationScansAll ==
    (Completed /\ op = "type_check" /\ call_cls = Cls("Workout") /\ asked.k = "Params"
        /\ parameter_kv("Workout", asked) \cup obj_kv("Workout", asked) = {}) =>
        /\ {log[i].cls.pname : i \in ParameterCalls("type_check")} = {CheckedKeys(asked)[j] : j \in 1..Len(CheckedKeys(asked))}
        /\ Cardinality(ParameterCalls("type_check")) = Len(CheckedKeys(asked))
        /\ IsNone(out) <=> FailingParameters = {}
        /\ ~IsNone(out) =>
              /\ IsKeyValueError(out)
              /\ out.err[1].tgt = Cls("Workout")
              /\ KeysOf(out) = {KeyS(k) : k \in FailingParameters}
              /\ Len(out.err[1].kv) = Cardinality(FailingParameters)
              /\ \A i \in 1..Len(out.err[1].kv) : out.err[1].kv[i].err = ParameterVerdict(out.err[1].kv[i].key.s).err[1]

\* an argument that two alters claim: the second alter is applied to what
\* the first one made of it, and its AttributeError ends the scan
TwiceAltered == \E j \in 1..Len(log) : log[j].ev = "alter" /\ log[j].d = 2 /\ log[j].idx > 1
\* the scan of C19 where no argument is claimed by two alters
C19_ScansAllUnlessTwiceAltered ==
    (Completed /\ op = "type_check" /\ call_cls = Cls("Workout") /\ asked.k = "Params"
        /\ parameter_kv("Workout", asked) \cup obj_kv("Workout", asked) = {}) =>
        /\ Raised(out) => out = Raise("AttributeError") /\ TwiceAltered
        /\ ~Raised(out) =>
              /\ Cardinality(ParameterCalls("type_check")) = Len(CheckedKeys(asked))
              /\ IsNone(out) <=> FailingParameters = {}
              /\ ~IsNone(out) =>
                    /\ IsKeyValueError(out)
                    /\ KeysOf(out) = {KeyS(k) : k \in FailingParameters}
                    /\ Len(out.err[1].kv) = Cardinality(FailingParameters)

\* {"weight": 15.0, "reps": "x", "lift": "x"}: reps, the second argument,
\* fails, lift is checked all the same, and the error holds reps and lift
C19_Witness ==
    /\ Completed /\ op = "type_check" /\ call_cls = Cls("Workout")
    /\ asked = ParamsV(<<Entry("weight", FloatV(15)), Entry("reps", Str("x")), Entry("lift", Str("x"))>>)
    /\ Cardinality(ParameterCalls("type_check")) = 3
    /\ IsKeyValueError(out)
    /\ KeysOf(out) = {KeyS("reps"), KeyS("lift")}

\* the validation of the constructor arguments a DataClass or Complex target leads to
ConstructorCheck == CHOOSE i \in 1..Len(log) : log[i].ev = "type_check" /\ log[i].d = 1 /\ log[i].cls.o = "Constructor"
\* the call of the constructor unit a DataClass or Complex target leads to
ConstructorCall == CHOOSE i \in 1..Len(log) : log[i].ev = "from_obj" /\ log[i].d = 1 /\ log[i].cls.o = "Constructor"
HasConstructorCall == \E i \in 1..Len(log) : log[i].ev = "from_obj" /\ log[i].d = 1 /\ log[i].cls.o = "Constructor"
\* the from_obj calls for the arguments, in the order they were made
ArgumentCalls == SelectSeq([i \in 1..Len(log) |-> i], LAMBDA i : i \in ParameterCalls("from_obj"))
\* the order the arguments of obj are to be made in: the declared order of
\* the class, or the order of the keys of obj
Declared(subclass, obj) ==
    IF parameter_order(subclass) # <<>>
    THEN SelectSeq(parameter_order(subclass), LAMBDA k : HasKey(obj, k))
    ELSE SelectSeq(Keys(obj), LAMBDA k : k # "type")
\* what from_obj makes of the argument of the call i of the log
ConstructedBy(i) == orchestrator_from_obj(log[i].cls, log[i].obj, registry).out

\* C20: construction makes the arguments one at a time in the declared
\* parameter order, or in input order when none is declared, and the local
\* state of each argument's Parameter holds exactly the constructed values
\* of the arguments made before it, under their names
C20_OrderedLocalState ==
    (Completed /\ op = "from_obj" /\ HasConstructorCall /\ IsMapping(log[ConstructorCall].obj)) =>
        LET subclass == log[ConstructorCall].cls.args[1].o
            order == Declared(subclass, log[ConstructorCall].obj)
            calls == ArgumentCalls
        IN /\ Len(calls) <= Len(order)
           /\ \A m \in 1..Len(calls) : log[calls[m]].cls.pname = order[m]
           /\ \A m \in 1..Len(calls) :
                 /\ log[calls[m]].cls.ls.k = "dict"
                 /\ Keys(log[calls[m]].cls.ls) = SubSeq(order, 1, m - 1)
                 /\ \A j \in 1..(m - 1) :
                       /\ Returned(ConstructedBy(calls[j]))
                       /\ RawGet(log[calls[m]].cls.ls, order[j]) = ConstructedBy(calls[j]).val
           /\ (Returned(out) /\ out.val.k = "obj") =>
                 /\ Len(calls) = Len(order)
                 /\ \A j \in 1..Len(calls) : RawGet(out.val, order[j]) = ConstructedBy(calls[j]).val

\* Meal declares snack before main: of {"type": "meal", "main": ..., "snack":
\* ...} snack is made first, and the Parameter of main holds the Fruit made
\* for snack, not the mapping it was made from
C20_Witness ==
    /\ Completed /\ op = "from_obj" /\ call_cls = Cls("Menu") /\ HasConstructorCall
    /\ Keys(log[ConstructorCall].obj) = <<"type", "main", "snack">>
    /\ Len(ArgumentCalls) = 2
    /\ log[ArgumentCalls[1]].cls.pname = "snack"
    /\ log[ArgumentCalls[1]].obj.k # "obj"
    /\ log[ArgumentCalls[2]].cls.pname = "main"
    /\ RawGet(log[ArgumentCalls[2]].cls.ls, "snack") = ObjV("Fruit", <<>>)
    /\ Returned(out) /\ out.val.k = "obj"
\* a Workout in input order: reps before lift, and weight sees both
C20_WitnessInputOrder ==
    /\ Completed /\ op = "from_obj" /\ call_cls = Cls("Workout") /\ HasConstructorCall
    /\ Returned(out) /\ out.val.k = "obj"
    /\ Len(ArgumentCalls) = 4
    /\ log[ArgumentCalls[1]].cls.pname = "maxed"
    /\ Keys(log[ArgumentCalls[4]].cls.ls) = <<"maxed", "weight", "reps">>

\* C24, as the spec states it: against the none target, None or NoneType,
\* type_check returns None for the value None alone, and for every other
\* value it returns an error
C24_NoneOnlyForNone ==
    (Completed /\ op = "type_check" /\ call_cls \in {Cls("None"), Cls("NoneType")}) =>
        /\ Returned(out)
        /\ IsNone(out) <=> asked = NoneV
        /\ asked # NoneV => out = RetErr(WrongTypeError(Cls("NoneType"), asked))
\* the values C24 holds for: every value but the class NoneType
C24_NoneOnlyForNoneOrItsClass ==
    (Completed /\ op = "type_check" /\ call_cls \in {Cls("None"), Cls("NoneType")} /\ asked # ClassV("NoneType")) =>
        /\ Returned(out)
        /\ IsNone(out) <=> asked = NoneV
        /\ asked # NoneV => out = RetErr(WrongTypeError(Cls("NoneType"), asked))

\* C29, as the spec states it: type_check against Set[T] checks every
\* element and returns one KeyValueError whose keys are the positions, in
\* iteration order, of exactly the failing elements
C29_SetKeyedByPosition ==
    (Completed /\ op = "type_check" /\ call_cls.o = "Set" /\ log[1].res = "Python" /\ IsIterable(asked)) =>
        /\ Cardinality(ElementCalls) = Len(Iter(asked))
        /\ IsNone(out) <=> FailingPositions(call_cls.args[1], asked, registry) = {}
        /\ ~IsNone(out) =>
              /\ IsKeyValueError(out)
              /\ KeysOf(out) = {KeyI(i) : i \in FailingPositions(call_cls.args[1], asked, registry)}

\* the failing elements of the value, in iteration order
FailingElements(t, obj, reg) ==
    SelectSeq(Iter(obj), LAMBDA x : ~IsNone(orchestrator_type_check(t, x, reg).out))

\* C29, amended: type_check against Set[T] checks every element and returns
\* one KeyValueError with one entry for each failing element, keyed 0, 1, ...
\* in the order the failures are met, whatever the positions of the elements
C29_SetKeyedByFailureCount ==
    (Completed /\ op = "type_check" /\ call_cls.o = "Set" /\ log[1].res = "Python" /\ IsIterable(asked)
        /\ IsNone(Wrapper_is_hashable(call_cls, call_cls.args[1], asked, registry))) =>
        LET failing == FailingElements(call_cls.args[1], asked, registry)
        IN /\ Cardinality(ElementCalls) = Len(Iter(asked))
           /\ IsNone(out) <=> failing = <<>>
           /\ ~IsNone(out) =>
                 /\ IsKeyValueError(out)
                 /\ Len(out.err[1].kv) = Len(failing)
                 /\ \A j \in 1..Len(failing) :
                       /\ out.err[1].kv[j].key = KeyI(j - 1)
                       /\ out.err[1].kv[j].err = orchestrator_type_check(call_cls.args[1], failing[j], registry).out.err[1]

\* {1, "x", 2, "y"} against Set[int]: the elements at 1 and 3 fail, and the
\* keys of the error are 0 and 1
C29_Witness ==
    /\ Completed /\ op = "type_check" /\ call_cls = Set_(Cls("int"))
    /\ asked = SetV(<<IntV(1), Str("x"), IntV(2), Str("y")>>)
    /\ FailingPositions(call_cls.args[1], asked, registry) = {1, 3}
    /\ IsKeyValueError(out) /\ KeysOf(out) = {KeyI(0), KeyI(1)}

\* the classes the Complex unit claims while the keys of Gym._registry are reg
Claimed(reg) == {c \in {"Gym", "Food", "Meat", "Fruit", "Beef", "Pork", "Menu", "Meal"} : Complex_contains(Cls(c), reg)}

\* C26, as the spec states it: no type_check or from_obj call adds, removes
\* or changes a registry entry, so the keys of Gym._registry and the classes
\* the unit claims stay what they were when the decorators had run
C26_RegistriesReadOnly ==
    /\ registry = InitialRegistry
    /\ Claimed(registry) = Claimed(InitialRegistry)

\* two mappings hold the same keys with the same values
SameMapping(a, b) == a.k = b.k /\ {a.items[i] : i \in 1..Len(a.items)} = {b.items[i] : i \in 1..Len(b.items)}

\* C30, as the spec states it: construction of constructor arguments leaves
\* the caller's mapping with the keys and values it had, whether it returns
\* or raises, and "type" is a key afterwards iff it was one before, with the
\* value it had
C30_InputMappingKept ==
    (Completed /\ op = "from_obj" /\ HasConstructorCall /\ IsMapping(asked)) =>
        /\ SameMapping(call_obj, asked)
        /\ HasKey(call_obj, "type") <=> HasKey(asked, "type")
        /\ HasKey(asked, "type") => type_str(call_obj) = type_str(asked)
\* what construction does leave: the arguments as they were, and "type" put
\* back when every argument was made, as None when there was none, and
\* missing when an argument raised
C30_TypeKeyAfterConstruction ==
    (Completed /\ op = "from_obj" /\ HasConstructorCall /\ IsMapping(asked)
        /\ \A i \in 1..Len(asked.items) : asked.items[i].items[2].k \notin {"dict", "Params", "list"}) =>
        /\ SameMapping(Popped(call_obj), Popped(asked))
        /\ HasKey(call_obj, "type") <=>
              (Len(ArgumentCalls) = Len(Declared(log[ConstructorCall].cls.args[1].o, asked)) /\ ~Raised(ConstructedBy(ArgumentCalls[Len(ArgumentCalls)])))
              \/ Popped(asked).items = <<>>
        /\ HasKey(call_obj, "type") => type_str(call_obj) = type_str(asked)

\* the value of a type_check, with every mapping and list nested in it, is
\* equal to what it was before the call; the local state of a constructor
\* argument is that value
C25_ValidationKeepsValue ==
    (Completed /\ op = "type_check") =>
        /\ call_obj = asked
        /\ \A i \in ParameterCalls("type_check") : log[i].cls.ls = log[ConstructorCheck].obj

(***************************************************************************)
(* The dependent parameters, in the words of their description: what a     *)
(* request names, whether its type is well formed, and whether the paths   *)
(* of its literal exist in its local state.                                *)
(***************************************************************************)
\* the type of the request, as the caller made it
requested == log[1].cls
\* the request is for a Parameter whose type is one of the two dependent variants
DependentRequest == requested.o = "Parameter" /\ requested.args[1].o \in {"DependentTypeCheck", "DependentFromObj"}
\* the second type argument of the requested type, and the entries of the
\* mapping it wraps
LiteralOf(t) == t.args[1].args[2]
Entries(t) == LiteralOf(t).ls.items[1].items
\* the first four conditions: two type arguments, the second a Literal of
\* one argument, a mapping from str to str
TwoArguments(t) == Len(t.args[1].args) = 2
SecondIsLiteral(t) == LiteralOf(t).o = "Literal"
LiteralIsUnary(t) == Len(LiteralOf(t).ls.items) = 1
LiteralIsStrToStr(t) ==
    /\ LiteralOf(t).ls.items[1].k = "dict"
    /\ \A i \in 1..Len(Entries(t)) : Entries(t)[i].items[1].k = "str" /\ Entries(t)[i].items[2].k = "str"
WellFormedType(t) == TwoArguments(t) /\ SecondIsLiteral(t) /\ LiteralIsUnary(t) /\ LiteralIsStrToStr(t)
\* the general check of the wrapped hierarchy accepts v: a Params whose
\* type names a class of it
Accepted(t, v) ==
    /\ v.k = "Params" /\ HasKey(v, "type")
    /\ RawGet(v, "type").k = "str" /\ RawGet(v, "type").s \in ChildNames(t.args[1].args[1].o)
\* the class v names
Named(t, v) == resolve_class_name(t.args[1].args[1].o, RawGet(v, "type").s)
KeysAreParameters(t, v) == \A i \in 1..Len(Entries(t)) : HasParam(Named(t, v), Entries(t)[i].items[1].s)
PathsAreShallow(t) == \A i \in 1..Len(Entries(t)) : Len(split(Entries(t)[i].items[2].s)) <= 2
\* every segment of the path keys[i..] exists from state on: a key of a
\* mapping, or an attribute of an object
RECURSIVE SegmentsExist(_, _, _)
SegmentsExist(state, keys, i) ==
    \/ i > Len(keys)
    \/ /\ IsMapping(state) \/ state.k = "obj"
       /\ HasKey(state, keys[i])
       /\ SegmentsExist(RawGet(state, keys[i]), keys, i + 1)
\* the entries of the literal whose path misses a segment in the local state
MissingPaths(t) == {i \in 1..Len(Entries(t)) : ~SegmentsExist(t.ls, split(Entries(t)[i].items[2].s), 1)}
\* the call returned an error of that name
ReturnedError(e) == Returned(out) /\ out.err # <<>> /\ out.err[1].e = e

\* C21: the validation of a dependent parameter, of either variant, whose
\* type is well formed and whose value the wrapped hierarchy accepts returns
\* MissingDependencyError whenever a segment of a path of its literal does
\* not exist in the local state
C21_MissingPathReported ==
    (/\ Completed /\ op = "type_check" /\ DependentRequest
     /\ WellFormedType(requested) /\ Accepted(requested, asked)
     /\ KeysAreParameters(requested, asked) /\ PathsAreShallow(requested)
     /\ MissingPaths(requested) # {})
        => ReturnedError("MissingDependencyError")
\* the same of a path whose first segment is no key of the local state
C21_MissingFirstSegmentReported ==
    (/\ Completed /\ op = "type_check" /\ DependentRequest
     /\ WellFormedType(requested) /\ Accepted(requested, asked)
     /\ KeysAreParameters(requested, asked) /\ PathsAreShallow(requested)
     /\ \E i \in 1..Len(Entries(requested)) : ~HasKey(requested.ls, split(Entries(requested)[i].items[2].s)[1]))
        => ReturnedError("MissingDependencyError")

\* the value at the end of a path all of whose segments exist
RECURSIVE Resolved(_, _, _)
Resolved(state, keys, i) == IF i > Len(keys) THEN state ELSE Resolved(RawGet(state, keys[i]), keys, i + 1)
\* the path of an entry resolves against the siblings made: its first
\* segment is a key of the local state and its second, when it has one, an
\* attribute of the sibling
ResolvesByAttribute(t, i) ==
    LET keys == split(Entries(t)[i].items[2].s)
    IN /\ IsMapping(t.ls) /\ HasKey(t.ls, keys[1])
       /\ Len(keys) = 2 => (RawGet(t.ls, keys[1]).k = "obj" /\ HasKey(RawGet(t.ls, keys[1]), keys[2]))
\* the construction of a from-obj-time dependent parameter returned
Constructed ==
    /\ Completed /\ op = "from_obj" /\ requested.o = "Parameter" /\ requested.args[1].o = "DependentFromObj"
    /\ WellFormedType(requested) /\ Returned(out)
\* the from_obj of the resolved class, with the mapping it was handed
WrappedConstruction == {i \in 1..Len(log) : log[i].ev = "from_obj" /\ log[i].d = 1 /\ log[i].cls.o = Named(requested, asked)}

\* C22: the construction of a from-obj-time dependent parameter puts the
\* value each path resolves to into the input mapping under the parameter
\* name of the path, and the wrapped type is constructed from that mapping
C22_ResolvedValuesInjected ==
    Constructed =>
        \A i \in 1..Len(Entries(requested)) :
            LET k == Entries(requested)[i].items[1].s
                v == Resolved(requested.ls, split(Entries(requested)[i].items[2].s), 1)
            IN /\ ResolvesByAttribute(requested, i)
               /\ HasKey(call_obj, k) /\ RawGet(call_obj, k) = v
               /\ \E j \in WrappedConstruction : HasKey(log[j].obj, k) /\ RawGet(log[j].obj, k) = v
\* C22, amended: a path resolves through the keys of the local state and
\* the attributes of the sibling made; the resolved value is put into the
\* input mapping under its parameter name unless the mapping has that key
\* already, whose value is then kept; the wrapped type is constructed from
\* that mapping afterwards, and the object made holds what the annotation of
\* the parameter makes of the value in the mapping
C22_ResolvedValuesInjectedUnlessGiven ==
    Constructed =>
        \A i \in 1..Len(Entries(requested)) :
            LET k == Entries(requested)[i].items[1].s
                v == Resolved(requested.ls, split(Entries(requested)[i].items[2].s), 1)
                given == IF HasKey(asked, k) THEN RawGet(asked, k) ELSE v
            IN /\ ResolvesByAttribute(requested, i)
               /\ HasKey(call_obj, k) /\ RawGet(call_obj, k) = given
               /\ \E j \in WrappedConstruction : HasKey(log[j].obj, k) /\ RawGet(log[j].obj, k) = given
               /\ out.val.k = "obj" /\ out.val.s = Named(requested, asked)
               /\ RawGet(out.val, k) = orchestrator_from_obj(ParamOf(out.val.s, k).annotation, given, registry).out.val
\* a Pork made with the weight of the sibling a, which the mapping lacked
C22_Witness ==
    /\ Constructed
    /\ requested.ls = DictV(<<Entry("a", ObjV("Pork", <<Entry("weight", FloatV(15))>>))>>)
    /\ Entries(requested) = <<Entry("weight", Str("a.weight"))>>
    /\ asked = PorkParams
    /\ out.val = ObjV("Pork", <<Entry("weight", FloatV(15))>>)
    /\ HasKey(call_obj, "weight")
\* a Pork made with the weight the mapping gave, not that of the sibling
C22_WitnessGiven ==
    /\ Constructed
    /\ requested.ls = DictV(<<Entry("a", ObjV("Pork", <<Entry("weight", FloatV(15))>>))>>)
    /\ Entries(requested) = <<Entry("weight", Str("a.weight"))>>
    /\ asked = WeighedPorkParams
    /\ out.val = ObjV("Pork", <<Entry("weight", FloatV(25))>>)

\* the request is for a union of a dependent variant and a fallback
UnionRequest ==
    /\ requested.o = "Parameter" /\ requested.args[1].o = "DependentUnion"
    /\ requested.args[1].args[1].o \in {"DependentTypeCheck", "DependentFromObj"}
\* the i-th candidate of the union, and whether it validates the value
Candidate(i) == Parameter(requested.args[1].args[i], requested.parent, requested.ls, requested.pname)
Validates(i) == IsNone(orchestrator_type_check(Candidate(i), asked, registry).out)
\* the first candidate that validates, 0 for none
Winner == IF Validates(1) THEN 1 ELSE IF Validates(2) THEN 2 ELSE 0
\* the validations of candidates the union ran, in order
Tried == SelectSeq([i \in 1..Len(log) |-> i], LAMBDA i : log[i].ev = "type_check" /\ log[i].d = 1)
\* the KeyValueError of the union holds the failures of both candidates,
\* each under the type of its candidate
BothFailures(e) ==
    /\ e.e = "KeyValueError" /\ Len(e.kv) = 2
    /\ \A i \in 1..2 : /\ e.kv[i].key.t # <<>>
                         /\ e.kv[i].key.t[1].args = Candidate(i).args
                         /\ e.kv[i].err.e = orchestrator_type_check(Candidate(i), asked, registry).out.err[1].e

\* C23: a union of dependent tries its two candidates in order, the
\* dependent variant first, selects the first that validates and constructs
\* through it; it fails, with a KeyValueError holding the failures of both,
\* only when neither validates
C23_FirstValidatingWins ==
    (Completed /\ UnionRequest /\ op \in {"type_check", "from_obj"}) =>
        /\ Len(Tried) \in 1..2
        /\ \A i \in 1..Len(Tried) : log[Tried[i]].cls.args[1] = requested.args[1].args[i]
        /\ Winner # 0 => /\ Len(Tried) = Winner
                         /\ op = "type_check" => IsNone(out)
                         /\ op = "from_obj" => out = orchestrator_from_obj(Candidate(Winner), asked, registry).out
        /\ Winner = 0 => /\ out.err # <<>> /\ BothFailures(out.err[1])
                         /\ op = "type_check" => Returned(out)
                         /\ op = "from_obj" => Raised(out)
\* the same of the unions whose first candidate ends its validation
C23_FirstValidatingWinsUnlessRaised ==
    (/\ Completed /\ UnionRequest /\ op \in {"type_check", "from_obj"}
     /\ ~Raised(orchestrator_type_check(Candidate(1), asked, registry).out)) =>
        /\ Len(Tried) \in 1..2
        /\ \A i \in 1..Len(Tried) : log[Tried[i]].cls.args[1] = requested.args[1].args[i]
        /\ Winner # 0 => /\ Len(Tried) = Winner
                         /\ op = "type_check" => IsNone(out)
                         /\ op = "from_obj" => out = orchestrator_from_obj(Candidate(Winner), asked, registry).out
        /\ Winner = 0 => /\ out.err # <<>> /\ BothFailures(out.err[1])
                         /\ op = "type_check" => Returned(out)
                         /\ op = "from_obj" => Raised(out)

\* C25: when type_check returns, the value, with every mapping and list
\* nested in it, and the local state it was checked against are equal to
\* what they were before the call
C25_ValidationKeepsState ==
    (Completed /\ op = "type_check") => (call_obj = asked /\ call_cls.ls = requested.ls)

\* C27: a Constructor handed to the orchestrator has the parameter set it
\* was created with, and the local state of a Parameter stays what it was
\* at its creation
C27_ContextsKept ==
    /\ \A i \in 1..Len(log) : log[i].cls.o = "Constructor" => popped(log[i].cls) = {}
    /\ Completed => call_cls.ls = requested.ls

\* the first condition, in the order of C28, that the request violates: the
\* name of its error, "general" for the general check of the wrapped type,
\* "" when every condition holds
FirstViolated(t, v) ==
    IF ~TwoArguments(t) THEN "MalformedDependencyError"
    ELSE IF ~SecondIsLiteral(t) THEN "MissingLiteralError"
    ELSE IF ~LiteralIsUnary(t) THEN "UnaryLiteralError"
    ELSE IF ~LiteralIsStrToStr(t) THEN "MalformedLiteralError"
    ELSE IF ~Accepted(t, v) THEN "general"
    ELSE IF ~KeysAreParameters(t, v) THEN "ExtraLiteralError"
    ELSE IF ~PathsAreShallow(t) THEN "TooDeepLiteralError"
    ELSE IF MissingPaths(t) # {} THEN "MissingDependencyError"
    ELSE ""
\* the validation ran a check of its variant: the shallow check of an
\* argument, or the validation of the constructor
VariantChecked == ReturnedError("KeyValueError") \/ \E i \in 1..Len(log) : log[i].cls.o = "Constructor"
\* the common validation was asked for, by itself or as the start of the
\* validation of a variant
CommonValidation ==
    /\ Completed /\ requested.o = "Parameter"
    /\ \/ op = "perfunctory_type_check"
       \/ op = "type_check" /\ DependentRequest
\* the outcome names the first violated condition, and none when all hold
FirstViolationReported ==
    LET e == FirstViolated(requested, asked)
    IN /\ e \notin {"", "general"} => ReturnedError(e) /\ ~VariantChecked
       /\ e = "general" => /\ Returned(out) /\ out.err # <<>> /\ ~VariantChecked
                           /\ out.err[1].e \in {"ParamError", "ComplexTypeMismatchError"}
       /\ e = "" => (Raised(out) \/ out.err = <<>> \/ VariantChecked)
       /\ (e = "" /\ op = "perfunctory_type_check") => IsNone(out)

\* C28: the validation of a dependent parameter reports the first violated
\* condition in the order: two type arguments, a Literal, of one argument,
\* a str to str mapping, the general check of the wrapped type, the keys of
\* the literal are parameters, the paths have at most one dot, the paths
\* exist in the local state; no check of the variant runs unless all hold
C28_FirstViolationReported == CommonValidation => FirstViolationReported
\* the same of the requests whose paths exist as far as their variant
\* walks them, and whose value names its class with a hashable one
C28_FirstViolationReportedUnlessRaised ==
    (/\ CommonValidation
     /\ FirstViolated(requested, asked) # "MissingDependencyError"
     /\ ~(asked.k = "Params" /\ HasKey(asked, "type") /\ ~IsHashableValue(RawGet(asked, "type"))))
        => FirstViolationReported
====
